---- MODULE Spec2Model ----
(***************************************************************************)
(* Model of the shell command tool (src/tools/tool_shell.py): the safety   *)
(* gate, timeout selection, working-directory validation and subprocess    *)
(* execution of Tools.run_command, as a per-invocation state machine.      *)
(* Python strings are TLA+ strings; every text operation (lower, strip,    *)
(* `in`, slicing, f-strings) is computed character by character.           *)
(***************************************************************************)
EXTENDS Integers, Sequences, FiniteSets, TLC

VARIABLES
    valves,        \* self.valves: the host-supplied configuration
    system,        \* SYSTEM = platform.system(), fixed for the process
    fs,            \* the filesystem: path -> "dir" | "file" | "absent"
    pc,            \* position of the current run_command invocation
    command,       \* argument command
    working_dir,   \* argument working_dir (reassigned by expanduser)
    timeout,       \* argument timeout
    warning_msg,   \* local warning_msg
    cmd_timeout,   \* local cmd_timeout
    cwd,           \* local cwd (None or a validated directory)
    proc,          \* the arguments of the subprocess.run call, or NoProc
    spawnCount,    \* number of subprocess.run calls of this invocation
    terminal,      \* which return statement ended the invocation
    result,        \* the string returned to the caller
    shell_cmd,     \* local shell_cmd (the interpreter and its flag)
    outcome,       \* what subprocess.run returned or raised
    alive,         \* the processes this invocation started that still run
    history,       \* the previous invocation of this process, where recorded
    suspended,     \* the run_command invocation of the thread that is not running
    op,            \* the composed operation in progress and its run_command calls
    sql,           \* the SQL tool (tool_sql.py): its valve, its database, its call
    chain          \* the chain_tasks call of the agents tool (tool_agents.py)

\* the state outside the run_command invocation at hand
others == <<suspended, op, sql, chain>>

vars == <<valves, system, fs, pc, command, working_dir, timeout, warning_msg,
          cmd_timeout, cwd, proc, spawnCount, terminal, result, shell_cmd,
          outcome, alive, history, others>>

-----------------------------------------------------------------------------
(* Bounds of the model *)

\* a command is the concatenation of at most MaxParts fragments
MaxParts == 2

-----------------------------------------------------------------------------
(* Python string operations *)

None == "<None>"

UpperChars == "ABCDEFGHIJKLMNOPQRSTUVWXYZ"
LowerChars == "abcdefghijklmnopqrstuvwxyz"
Whitespace == {" ", "\t", "\n", "\r"}

Min(a, b) == IF a < b THEN a ELSE b
Max(a, b) == IF a > b THEN a ELSE b

\* s[i] (1-based)
CharAt(s, i) == SubSeq(s, i, i)

\* the lower-case letter of each upper-case letter
UpperToLower ==
    [c \in {CharAt(UpperChars, i) : i \in 1..Len(UpperChars)} |->
        CharAt(LowerChars, CHOOSE i \in 1..Len(UpperChars) : CharAt(UpperChars, i) = c)]

\* c.lower() for one character
LowerChar(c) == IF c \in DOMAIN UpperToLower THEN UpperToLower[c] ELSE c

\* s[i-1:].lower(), computed by halves
RECURSIVE LowerFrom(_, _)
LowerFrom(s, i) ==
    IF i > Len(s) THEN ""
    ELSE IF i = Len(s) THEN LowerChar(CharAt(s, i))
    ELSE LET mid == (i + Len(s)) \div 2
         IN  LowerFrom(SubSeq(s, 1, mid), i) \o LowerFrom(s, mid + 1)

\* str.lower()
Lower(s) == LowerFrom(s, 1)

\* str.strip(): drop leading and trailing whitespace
Strip(s) ==
    LET n      == Len(s)
        ws(i)  == CharAt(s, i) \in Whitespace
    IN  IF n > 0 /\ ~ws(1) /\ ~ws(n) THEN s
        ELSE IF \A i \in 1..n : ws(i) THEN ""
        ELSE LET lo == CHOOSE i \in 1..n : ~ws(i) /\ \A j \in 1..(i - 1) : ws(j)
                 hi == CHOOSE i \in 1..n : ~ws(i) /\ \A j \in (i + 1)..n : ws(j)
             IN  SubSeq(s, lo, hi)

\* p in s
Contains(s, p) ==
    \E i \in 1..(Len(s) - Len(p) + 1) : SubSeq(s, i, i + Len(p) - 1) = p

\* s.startswith(p)
StartsWith(s, p) == Len(s) >= Len(p) /\ SubSeq(s, 1, Len(p)) = p

\* s[:n], with Python's meaning of a negative n
SliceTo(s, n) ==
    IF n >= 0 THEN SubSeq(s, 1, Min(n, Len(s)))
    ELSE SubSeq(s, 1, Max(0, Len(s) + n))

\* sep.join(items)
RECURSIVE Join(_, _)
Join(items, sep) ==
    IF Len(items) = 0 THEN ""
    ELSE IF Len(items) = 1 THEN items[1]
    ELSE items[1] \o sep \o Join(Tail(items), sep)

-----------------------------------------------------------------------------
(* Module-level constants of tool_shell.py *)

BLOCKED_COMMANDS ==
    { "rm -rf /", "rm -rf /*", "del /f /s /q c:\\",
      "format", "mkfs", "dd if=",
      "shutdown", "reboot", "halt", "init 0", "init 6",
      "nmap", "nikto", "sqlmap", "hydra",
      "sudo rm", "sudo dd" }

\* blocked.lower() of every entry
BLOCKED_LOWER == {Lower(blocked) : blocked \in BLOCKED_COMMANDS}

WARN_PATTERNS == <<"sudo", "admin", "password", "delete", "remove">>

-----------------------------------------------------------------------------
(* The host: filesystem and configuration *)

HOME == "/root"
POWERSHELL == "C:\\Windows\\System32\\WindowsPowerShell\\v1.0\\powershell.exe"

\* the paths whose state the model tracks; every other path is absent
FsPaths == {"/data/user-files", "/etc/hosts", HOME, "/bin/bash", "/bin/sh", POWERSHELL}

\* faulty variant of the directory test: os.path.exists instead of isdir
IsDir_exists(path) == path \in DOMAIN fs /\ fs[path] # "absent"

\* os.path.isdir(path)
IsDir(path) == path \in DOMAIN fs /\ fs[path] = "dir"

\* os.path.exists(path)
Exists(path) == path \in DOMAIN fs /\ fs[path] # "absent"

\* os.path.expanduser(path): "~" and "~/..." become $HOME...; "~name" of an
\* unknown user is returned unchanged
ExpandUser(path) ==
    IF path = "~" THEN HOME
    ELSE IF StartsWith(path, "~/") THEN HOME \o SubSeq(path, 2, Len(path))
    ELSE path

\* the filesystems of a POSIX host and of a Windows host
LinuxFs(bash) ==
    [p \in FsPaths |->
        IF p \in {"/data/user-files", HOME} THEN "dir"
        ELSE IF p \in {"/etc/hosts", "/bin/sh"} THEN "file"
        ELSE IF p = "/bin/bash" /\ bash THEN "file"
        ELSE "absent"]

WindowsFs(powershell) ==
    [p \in FsPaths |->
        IF p = HOME THEN "dir"
        ELSE IF p = POWERSHELL /\ powershell THEN "file"
        ELSE "absent"]

\* class Valves: the defaults of the fields
DefaultValves ==
    [ default_timeout     |-> 30,
      max_output_kb       |-> 50,
      allow_sudo          |-> FALSE,
      blocked_commands    |-> "rm -rf /,format,mkfs,dd if=,shutdown,reboot",
      default_working_dir |-> "/data/user-files" ]

\* the values the host may give each field (the fields are unvalidated)
ValveValues ==
    [ default_timeout     |-> {-3, 0, 30, 45, 500},
      max_output_kb       |-> {0, 1, 50},
      allow_sudo          |-> BOOLEAN,
      blocked_commands    |-> {DefaultValves.blocked_commands, "echo,wget"},
      default_working_dir |-> {"/data/user-files", "/tmp"} ]

-----------------------------------------------------------------------------
(* The pure helpers of tool_shell.py *)

\* faulty variant of _get_shell: the fallback interpreter is preferred
_get_shell_fallbackFirst ==
    IF system = "Windows"
    THEN <<"cmd", "/c">>
    ELSE IF Exists("/bin/sh")
         THEN <<"/bin/sh", "-c">>
         ELSE <<"/bin/bash", "-c">>

\* faulty variant of _get_shell: the preferred interpreter, never probed
_get_shell_unprobed ==
    IF system = "Windows"
    THEN <<"powershell", "-NoProfile", "-Command">>
    ELSE <<"/bin/bash", "-c">>

\* _get_shell()
_get_shell ==
    IF system = "Windows"
    THEN IF Exists(POWERSHELL)
         THEN <<"powershell", "-NoProfile", "-Command">>
         ELSE <<"cmd", "/c">>
    ELSE IF Exists("/bin/bash")
         THEN <<"/bin/bash", "-c">>
         ELSE <<"/bin/sh", "-c">>

\* faulty variant of _is_blocked: the command is not lower-cased
_is_blocked_caseSensitive(cmd) ==
    LET cmd_strip == Strip(cmd)
    IN  \E blocked \in BLOCKED_COMMANDS : Contains(cmd_strip, blocked)

\* faulty variant of _is_blocked: allow_sudo lets a command through
_is_blocked_unlessAllowSudo(cmd) ==
    /\ ~valves.allow_sudo
    /\ LET cmd_lower == Strip(Lower(cmd))
       IN  \E blocked \in BLOCKED_LOWER : Contains(cmd_lower, blocked)

\* _is_blocked(command)
_is_blocked(cmd) ==
    LET cmd_lower == Strip(Lower(cmd))
    IN  \E blocked \in BLOCKED_LOWER : Contains(cmd_lower, blocked)

\* faulty variant of _has_warnings: the command is not lower-cased
_has_warnings_caseSensitive(cmd) ==
    LET matched == SelectSeq(WARN_PATTERNS, LAMBDA pattern : Contains(cmd, pattern))
    IN  [i \in 1..Len(matched) |-> "Command contains '" \o matched[i] \o "'"]

\* faulty variant of _has_warnings: allow_sudo silences the sudo warning
_has_warnings_sudoAllowed(cmd) ==
    LET cmd_lower == Lower(cmd)
        matched   == SelectSeq(WARN_PATTERNS,
                               LAMBDA pattern : /\ Contains(cmd_lower, pattern)
                                                /\ ~(valves.allow_sudo /\ pattern = "sudo"))
    IN  [i \in 1..Len(matched) |-> "Command contains '" \o matched[i] \o "'"]

\* _has_warnings(command): one message per matched pattern, in list order
_has_warnings(cmd) ==
    LET cmd_lower == Lower(cmd)
        matched   == SelectSeq(WARN_PATTERNS, LAMBDA pattern : Contains(cmd_lower, pattern))
    IN  [i \in 1..Len(matched) |-> "Command contains '" \o matched[i] \o "'"]

\* faulty variant of the emptiness test: the command is not stripped
IsEmptyCommand_noStrip(cmd) == cmd = ""

\* not command or not command.strip()
IsEmptyCommand(cmd) == cmd = "" \/ Strip(cmd) = ""

\* faulty variant of _get_timeout: only 0 selects the default
_get_timeout_onlyZeroDefaults(requested) ==
    LET default == valves.default_timeout
        t       == IF requested # 0 THEN requested ELSE default
    IN  Max(1, Min(120, t))

\* faulty variant of _get_timeout: the upper limit is not applied
_get_timeout_noUpperLimit(requested) ==
    LET default == valves.default_timeout
        t       == IF requested > 0 THEN requested ELSE default
    IN  Max(1, t)

\* faulty variant of _get_timeout: the configured default is used as it is
_get_timeout_defaultUnclamped(requested) ==
    LET default == valves.default_timeout
    IN  IF requested > 0 THEN Max(1, Min(120, requested)) ELSE default

\* Tools._get_timeout(requested)
_get_timeout(requested) ==
    LET default == valves.default_timeout
        t       == IF requested > 0 THEN requested ELSE default
    IN  Max(1, Min(120, t))

\* faulty variant of _get_max_output: a kilobyte of 1000 characters
_get_max_output_decimal == valves.max_output_kb * 1000

\* Tools._get_max_output()
_get_max_output == valves.max_output_kb * 1024

-----------------------------------------------------------------------------
(* The inputs of run_command *)

\* the pieces commands are made of
Fragments == {" ", "sudo", " rm", "FORMAT", "echo Password"}

RECURSIVE CommandsOf(_)
CommandsOf(n) ==
    IF n = 0 THEN {""}
    ELSE LET shorter == CommandsOf(n - 1)
         IN  shorter \cup {c \o f : c \in shorter, f \in Fragments}

Commands == CommandsOf(MaxParts)

WorkingDirs == {"", "~", "/definitely/not/real", "/etc/hosts"}

Timeouts == {-5, 0, 1, 7, 120, 9999}

\* what the child process may write and exit with
Stdouts == {"", "hello\n"}
Stderrs == {"", "oops\n"}
ReturnCodes == {0, 7}

\* text longer than one kilobyte: printable, and whitespace only
Block16 == "0123456789abcdef"
Block256 ==
    LET b64 == Block16 \o Block16 \o Block16 \o Block16
    IN  b64 \o b64 \o b64 \o b64
LongOutput == Block256 \o Block256 \o Block256 \o Block256 \o "tail\n"
Blank16 == "                "
Blank256 ==
    LET b64 == Blank16 \o Blank16 \o Blank16 \o Blank16
    IN  b64 \o b64 \o b64 \o b64
LongBlank == Blank256 \o Blank256 \o Blank256 \o Blank256 \o " \n"

\* (result.stdout, result.stderr) of a finished process
Outputs == (Stdouts \X Stderrs) \cup {<<LongOutput, "">>, <<LongBlank, "">>}

\* the exceptions subprocess.run may raise besides TimeoutExpired
LaunchErrors == {"FileNotFoundError", "PermissionError", "OSError"}

NoProc == [args |-> <<>>, timeout |-> 0, cwd |-> None]

\* no call of subprocess.run has ended yet
NoOutcome == [kind |-> "none", stdout |-> "", stderr |-> "", returncode |-> 0]

\* an invocation that has not been called: the frame of a thread that is not
\* inside run_command
NoInvocation ==
    [pc |-> "idle", command |-> None, working_dir |-> None, timeout |-> 0,
     warning_msg |-> "", cmd_timeout |-> 0, cwd |-> None, proc |-> NoProc,
     spawnCount |-> 0, terminal |-> "none", result |-> None, shell_cmd |-> <<>>,
     outcome |-> NoOutcome, alive |-> {}]

\* no composed operation is in progress
NoOp == [name |-> "none", args |-> <<>>, calls |-> <<>>, state |-> "idle",
         result |-> None]

\* the SQL tool before any call: the valves at their defaults, a database
\* with two tables of one INTEGER PRIMARY KEY column x
NoSql ==
    [allow_dangerous_operations |-> FALSE,
     db |-> [t |-> {1}, somewhere |-> {1, 2}],
     step |-> "idle", call |-> "none", statement |-> None, before |-> <<>>,
     connections |-> 0, result |-> None]

\* no chain_tasks call is in progress
NoChain ==
    [state |-> "idle", tasks_json |-> None, tasks |-> <<>>, i |-> 0,
     previous_response |-> "", sent |-> <<>>, replies |-> <<>>, results |-> <<>>,
     result |-> None]

\* no earlier invocation is on record
NoHistory ==
    [recorded |-> FALSE, valves |-> DefaultValves, fs |-> LinuxFs(TRUE),
     command |-> None, working_dir |-> None, timeout |-> 0, warning_msg |-> "",
     outcome |-> NoOutcome, shell_cmd |-> <<>>, proc |-> NoProc, spawnCount |-> 0,
     terminal |-> "none", result |-> None]

-----------------------------------------------------------------------------
(* Tools.run_command *)

\* the locals of an invocation before its first statement
Fresh ==
    /\ warning_msg = ""
    /\ cmd_timeout = 0
    /\ cwd = None
    /\ proc = NoProc
    /\ spawnCount = 0
    /\ terminal = "none"
    /\ result = None
    /\ shell_cmd = <<>>
    /\ outcome = NoOutcome
    /\ alive = {}

Init ==
    /\ valves = DefaultValves
    /\ system \in {"Linux", "Windows"}
    /\ fs = IF system = "Windows" THEN WindowsFs(TRUE) ELSE LinuxFs(TRUE)
    /\ pc = "idle"
    /\ command = None
    /\ working_dir = None
    /\ timeout = 0
    /\ Fresh
    /\ history = NoHistory
    /\ suspended = NoInvocation
    /\ op = NoOp
    /\ sql = NoSql
    /\ chain = NoChain

\* The model varies one aspect of the host at a time: the valves change on
\* the reference host (Linux with bash), the interpreters under the defaults.
ReferenceHost == system = "Linux" /\ fs = LinuxFs(TRUE)

\* the host sets one field of the valves, the others at their defaults
SetValves ==
    /\ pc = "idle"
    /\ ReferenceHost
    /\ \E field \in DOMAIN ValveValues : \E v \in ValveValues[field] :
          valves' = [DefaultValves EXCEPT ![field] = v]
    /\ UNCHANGED <<system, fs, pc, command, working_dir, timeout, warning_msg,
                   cmd_timeout, cwd, proc, spawnCount, terminal, result,
                   shell_cmd, outcome, alive, history, others>>

\* between invocations an interpreter is installed or removed
FsChange ==
    /\ pc = "idle"
    /\ valves = DefaultValves
    /\ \E present \in BOOLEAN :
          fs' = IF system = "Windows" THEN WindowsFs(present) ELSE LinuxFs(present)
    /\ UNCHANGED <<valves, system, pc, command, working_dir, timeout, warning_msg,
                   cmd_timeout, cwd, proc, spawnCount, terminal, result,
                   shell_cmd, outcome, alive, history, others>>

\* the host calls run_command(command, working_dir, timeout)
Call ==
    /\ pc = "idle"
    /\ \E c \in Commands, wd \in WorkingDirs, t \in Timeouts :
          /\ command' = c
          /\ working_dir' = wd
          /\ timeout' = t
    /\ pc' = "check_empty"
    /\ UNCHANGED <<valves, system, fs, warning_msg, cmd_timeout, cwd, proc,
                   spawnCount, terminal, result,
                   shell_cmd, outcome, alive, history, others>>

\* a return statement: the invocation ends in state t with string r
ReturnWith(t, r) ==
    /\ terminal' = t
    /\ result' = r
    /\ pc' = "done"

\* if not command or not command.strip(): return "Error: No command provided."
CheckEmpty ==
    /\ pc = "check_empty"
    /\ IF IsEmptyCommand(command)
       THEN ReturnWith("Empty", "Error: No command provided.")
       ELSE pc' = "classify" /\ UNCHANGED <<terminal, result>>
    /\ UNCHANGED <<valves, system, fs, command, working_dir, timeout, warning_msg,
                   cmd_timeout, cwd, proc, spawnCount,
                   shell_cmd, outcome, alive, history, others>>

\* faulty variant of the gate: the working directory is looked at first
CheckBlocked_directoryFirst ==
    /\ pc = "classify"
    /\ LET expanded == IF StartsWith(working_dir, "~")
                       THEN ExpandUser(working_dir) ELSE working_dir
       IN  IF working_dir # "" /\ ~IsDir(expanded)
           THEN ReturnWith("BadWorkingDir",
                           "Error: Working directory not found: " \o expanded)
           ELSE IF _is_blocked(command)
           THEN ReturnWith("Blocked", "Error: This command is blocked for safety reasons.")
           ELSE pc' = "warn" /\ UNCHANGED <<terminal, result>>
    /\ UNCHANGED <<valves, system, fs, command, working_dir, timeout, warning_msg,
                   cmd_timeout, cwd, proc, spawnCount,
                   shell_cmd, outcome, alive, history, others>>

\* if _is_blocked(command): return "Error: This command is blocked ..."
CheckBlocked ==
    /\ pc = "classify"
    /\ IF _is_blocked(command)
       THEN ReturnWith("Blocked", "Error: This command is blocked for safety reasons.")
       ELSE pc' = "warn" /\ UNCHANGED <<terminal, result>>
    /\ UNCHANGED <<valves, system, fs, command, working_dir, timeout, warning_msg,
                   cmd_timeout, cwd, proc, spawnCount,
                   shell_cmd, outcome, alive, history, others>>

\* warnings = _has_warnings(command); warning_msg = "[Warning: ...]\n\n"
ComputeWarnings ==
    /\ pc = "warn"
    /\ LET warnings == _has_warnings(command)
       IN  warning_msg' = IF Len(warnings) > 0
                          THEN "[Warning: " \o Join(warnings, "; ") \o "]\n\n"
                          ELSE ""
    /\ pc' = "timeout"
    /\ UNCHANGED <<valves, system, fs, command, working_dir, timeout, cmd_timeout,
                   cwd, proc, spawnCount, terminal, result,
                   shell_cmd, outcome, alive, history, others>>

\* cmd_timeout = self._get_timeout(timeout)
GetTimeout ==
    /\ pc = "timeout"
    /\ cmd_timeout' = _get_timeout(timeout)
    /\ pc' = "workdir"
    /\ UNCHANGED <<valves, system, fs, command, working_dir, timeout, warning_msg,
                   cwd, proc, spawnCount, terminal, result,
                   shell_cmd, outcome, alive, history, others>>

\* cwd = None; if working_dir: expanduser, isdir, else return the error
ResolveWorkingDir ==
    /\ pc = "workdir"
    /\ IF working_dir = ""
       THEN /\ cwd' = None
            /\ pc' = "shell"
            /\ UNCHANGED <<working_dir, terminal, result>>
       ELSE LET expanded == IF StartsWith(working_dir, "~")
                            THEN ExpandUser(working_dir) ELSE working_dir
            IN  /\ working_dir' = expanded
                /\ IF IsDir(expanded)
                   THEN /\ cwd' = expanded
                        /\ pc' = "shell"
                        /\ UNCHANGED <<terminal, result>>
                   ELSE /\ cwd' = None
                        /\ ReturnWith("BadWorkingDir",
                                      "Error: Working directory not found: " \o expanded)
    /\ UNCHANGED <<valves, system, fs, command, timeout, warning_msg, cmd_timeout,
                   proc, spawnCount,
                   shell_cmd, outcome, alive, history, others>>

\* shell_cmd = _get_shell()
SelectShell ==
    /\ pc = "shell"
    /\ shell_cmd' = _get_shell
    /\ pc' = "spawn"
    /\ UNCHANGED <<valves, system, fs, command, working_dir, timeout, warning_msg,
                   cmd_timeout, cwd, proc, spawnCount, terminal, result, outcome,
                   alive, history, others>>

\* subprocess.run(shell_cmd + [command], timeout=cmd_timeout, cwd=cwd): the
\* interpreter is started as the one child process of the call
Spawn ==
    /\ pc = "spawn"
    /\ proc' = [args |-> shell_cmd \o <<command>>, timeout |-> cmd_timeout, cwd |-> cwd]
    /\ spawnCount' = spawnCount + 1
    /\ alive' = {"shell"}
    /\ pc' = "running"
    /\ UNCHANGED <<valves, system, fs, command, working_dir, timeout, warning_msg,
                   cmd_timeout, cwd, terminal, result, shell_cmd, outcome, history, others>>

\* faulty variant of FormatOutput: the exit code is appended before the cut
FormatOutput_markerBeforeCut(stdout, stderr, returncode) ==
    LET merged    == IF stdout # "" /\ stderr # ""
                     THEN stdout \o "\n--- stderr ---\n" \o stderr
                     ELSE stdout \o stderr
        output    == IF Strip(merged) = ""
                     THEN "(Command completed with no output)" ELSE merged
        marked    == IF returncode # 0
                     THEN output \o "\n\n[Exit code: " \o ToString(returncode) \o "]"
                     ELSE output
        max_out   == _get_max_output
    IN  IF Len(marked) > max_out
        THEN SliceTo(marked, max_out) \o "\n\n[Output truncated at "
             \o ToString(max_out) \o " characters]"
        ELSE marked

\* faulty variant of FormatOutput: no exit-code marker after a cut
FormatOutput_noMarkerAfterCut(stdout, stderr, returncode) ==
    LET merged    == IF stdout # "" /\ stderr # ""
                     THEN stdout \o "\n--- stderr ---\n" \o stderr
                     ELSE stdout \o stderr
        output    == IF Strip(merged) = ""
                     THEN "(Command completed with no output)" ELSE merged
        max_out   == _get_max_output
        truncated == IF Len(output) > max_out
                     THEN SliceTo(output, max_out) \o "\n\n[Output truncated at "
                          \o ToString(max_out) \o " characters]"
                     ELSE output
    IN  IF returncode # 0 /\ Len(output) <= max_out
        THEN truncated \o "\n\n[Exit code: " \o ToString(returncode) \o "]"
        ELSE truncated

\* faulty variant of FormatOutput: the placeholder only replaces the empty string
FormatOutput_placeholderOnlyEmpty(stdout, stderr, returncode) ==
    LET merged    == IF stdout # "" /\ stderr # ""
                     THEN stdout \o "\n--- stderr ---\n" \o stderr
                     ELSE stdout \o stderr
        output    == IF merged = ""
                     THEN "(Command completed with no output)" ELSE merged
        max_out   == _get_max_output
        truncated == IF Len(output) > max_out
                     THEN SliceTo(output, max_out) \o "\n\n[Output truncated at "
                          \o ToString(max_out) \o " characters]"
                     ELSE output
    IN  IF returncode # 0
        THEN truncated \o "\n\n[Exit code: " \o ToString(returncode) \o "]"
        ELSE truncated

\* the text built from a finished process (result.stdout, .stderr, .returncode)
FormatOutput(stdout, stderr, returncode) ==
    LET merged    == IF stdout # "" /\ stderr # ""
                     THEN stdout \o "\n--- stderr ---\n" \o stderr
                     ELSE stdout \o stderr
        output    == IF Strip(merged) = ""
                     THEN "(Command completed with no output)" ELSE merged
        max_out   == _get_max_output
        truncated == IF Len(output) > max_out
                     THEN SliceTo(output, max_out) \o "\n\n[Output truncated at "
                          \o ToString(max_out) \o " characters]"
                     ELSE output
    IN  IF returncode # 0
        THEN truncated \o "\n\n[Exit code: " \o ToString(returncode) \o "]"
        ELSE truncated

\* subprocess.run returned a CompletedProcess
Returned(stdout, stderr, returncode) ==
    [kind |-> "CompletedProcess", stdout |-> stdout, stderr |-> stderr,
     returncode |-> returncode]

\* subprocess.run raised the exception e
Raised(e) == [kind |-> e, stdout |-> "", stderr |-> "", returncode |-> 0]

\* faulty variant of the normal return: the warning text is dropped
ProcessCompletes_dropsWarning ==
    /\ pc = "running"
    /\ \E out \in Outputs, returncode \in ReturnCodes :
          /\ outcome' = Returned(out[1], out[2], returncode)
          /\ ReturnWith("Completed", FormatOutput(out[1], out[2], returncode))
    /\ alive' = {}
    /\ UNCHANGED <<valves, system, fs, command, working_dir, timeout, warning_msg,
                   cmd_timeout, cwd, proc, spawnCount, shell_cmd, history, others>>

\* subprocess.run returns once the interpreter has exited and its output is
\* read to the end (the commands of the model leave nothing in the
\* background): return warning_msg + output
ProcessCompletes ==
    /\ pc = "running"
    /\ \E out \in Outputs, returncode \in ReturnCodes :
          /\ outcome' = Returned(out[1], out[2], returncode)
          /\ ReturnWith("Completed",
                        warning_msg \o FormatOutput(out[1], out[2], returncode))
    /\ alive' = {}
    /\ UNCHANGED <<valves, system, fs, command, working_dir, timeout, warning_msg,
                   cmd_timeout, cwd, proc, spawnCount, shell_cmd, history, others>>

\* faulty variant of the timeout handler: the command is tried once more
ProcessTimesOut_retries ==
    /\ pc = "running"
    /\ outcome' = Raised("TimeoutExpired")
    /\ \E descendants \in SUBSET {"child"} : alive' = descendants
    /\ IF spawnCount < 2
       THEN pc' = "spawn" /\ UNCHANGED <<terminal, result>>
       ELSE ReturnWith("TimedOut", "Error: Command timed out after "
                                      \o ToString(cmd_timeout) \o " seconds.")
    /\ UNCHANGED <<valves, system, fs, command, working_dir, timeout, warning_msg,
                   cmd_timeout, cwd, proc, spawnCount, shell_cmd, history, others>>

\* faulty variant of the timeout return: the requested value is named
ProcessTimesOut_namesRequested ==
    /\ pc = "running"
    /\ outcome' = Raised("TimeoutExpired")
    /\ \E descendants \in SUBSET {"child"} : alive' = descendants
    /\ ReturnWith("TimedOut",
                  "Error: Command timed out after " \o ToString(timeout) \o " seconds.")
    /\ UNCHANGED <<valves, system, fs, command, working_dir, timeout, warning_msg,
                   cmd_timeout, cwd, proc, spawnCount, shell_cmd, history, others>>

\* except subprocess.TimeoutExpired.  By then subprocess.run has killed and
\* reaped its child, the interpreter (process.kill(), process.wait()); the
\* call starts no session or process group and signals no other process, so
\* whatever the interpreter itself had started is left as it was.
ProcessTimesOut ==
    /\ pc = "running"
    /\ outcome' = Raised("TimeoutExpired")
    /\ \E descendants \in SUBSET {"child"} : alive' = descendants
    /\ ReturnWith("TimedOut",
                  "Error: Command timed out after " \o ToString(cmd_timeout) \o " seconds.")
    /\ UNCHANGED <<valves, system, fs, command, working_dir, timeout, warning_msg,
                   cmd_timeout, cwd, proc, spawnCount, shell_cmd, history, others>>

\* str(e) of an exception raised by subprocess.run
ErrorText(e) ==
    IF e = "FileNotFoundError"
    THEN "[Errno 2] No such file or directory: '" \o proc.args[1] \o "'"
    ELSE IF e = "PermissionError"
    THEN "[Errno 13] Permission denied: '" \o proc.args[1] \o "'"
    ELSE "[Errno 12] Cannot allocate memory"

\* faulty variant of the exception handlers: the catch-all is missing and
\* an exception other than the named ones leaves run_command
LaunchFails_propagates ==
    /\ pc = "running"
    /\ \E e \in LaunchErrors :
          /\ outcome' = Raised(e)
          /\ IF e = "FileNotFoundError"
             THEN ReturnWith("LaunchFailed", "Error: Command not found - " \o ErrorText(e))
             ELSE IF e = "PermissionError"
             THEN ReturnWith("LaunchFailed", "Error: Permission denied.")
             ELSE pc' = "raised" /\ UNCHANGED <<terminal, result>>
    /\ alive' = {}
    /\ UNCHANGED <<valves, system, fs, command, working_dir, timeout, warning_msg,
                   cmd_timeout, cwd, proc, spawnCount, shell_cmd, history, others>>

\* except FileNotFoundError / PermissionError / Exception: the interpreter
\* could not be started, or the call failed after it and ended its child
LaunchFails ==
    /\ pc = "running"
    /\ \E e \in LaunchErrors :
          /\ outcome' = Raised(e)
          /\ ReturnWith("LaunchFailed",
                        IF e = "FileNotFoundError"
                        THEN "Error: Command not found - " \o ErrorText(e)
                        ELSE IF e = "PermissionError"
                        THEN "Error: Permission denied."
                        ELSE "Error executing command: " \o ErrorText(e))
    /\ alive' = {}
    /\ UNCHANGED <<valves, system, fs, command, working_dir, timeout, warning_msg,
                   cmd_timeout, cwd, proc, spawnCount, shell_cmd, history, others>>

\* the caller has the result; the next invocation starts from fresh locals
Return ==
    /\ pc = "done"
    /\ pc' = "idle"
    /\ command' = None
    /\ working_dir' = None
    /\ timeout' = 0
    /\ warning_msg' = ""
    /\ cmd_timeout' = 0
    /\ cwd' = None
    /\ proc' = NoProc
    /\ spawnCount' = 0
    /\ terminal' = "none"
    /\ result' = None
    /\ shell_cmd' = <<>>
    /\ outcome' = NoOutcome
    /\ alive' = {}
    /\ UNCHANGED <<valves, system, fs, history, others>>

Next ==
    \/ SetValves
    \/ FsChange
    \/ Call
    \/ CheckEmpty
    \/ CheckBlocked
    \/ ComputeWarnings
    \/ GetTimeout
    \/ ResolveWorkingDir
    \/ SelectShell
    \/ Spawn
    \/ ProcessCompletes
    \/ ProcessTimesOut
    \/ LaunchFails
    \/ Return

Spec == Init /\ [][Next]_vars

-----------------------------------------------------------------------------
(* Two invocations in one process.  The previous invocation is kept on      *)
(* record when it returns, so that the next one can be compared with it;     *)
(* the calls are drawn from a few inputs, the rest of run_command is as      *)
(* above.                                                                    *)

HistoryCommands == {"sudo", "FORMAT", "echo Password"}
HistoryDirs == {"", "/definitely/not/real"}
HistoryTimeouts == {0, 7}

\* the host calls run_command(command, working_dir, timeout)
CallRecorded ==
    /\ pc = "idle"
    /\ \E c \in HistoryCommands, wd \in HistoryDirs, t \in HistoryTimeouts :
          /\ command' = c
          /\ working_dir' = wd
          /\ timeout' = t
    /\ pc' = "check_empty"
    /\ UNCHANGED <<valves, system, fs, warning_msg, cmd_timeout, cwd, proc,
                   spawnCount, terminal, result, shell_cmd, outcome, alive, history, others>>

\* between invocations the host switches allow_sudo
SetAllowSudo ==
    /\ pc = "idle"
    /\ valves' = [valves EXCEPT !.allow_sudo = ~valves.allow_sudo]
    /\ UNCHANGED <<system, fs, pc, command, working_dir, timeout, warning_msg,
                   cmd_timeout, cwd, proc, spawnCount, terminal, result,
                   shell_cmd, outcome, alive, history, others>>

\* subprocess.run returns, the process having printed one line to stdout
ProcessCompletesBriefly ==
    /\ pc = "running"
    /\ \E returncode \in ReturnCodes :
          /\ outcome' = Returned("hello\n", "", returncode)
          /\ ReturnWith("Completed",
                        warning_msg \o FormatOutput("hello\n", "", returncode))
    /\ alive' = {}
    /\ UNCHANGED <<valves, system, fs, command, working_dir, timeout, warning_msg,
                   cmd_timeout, cwd, proc, spawnCount, shell_cmd, history, others>>

\* the caller has the result; the invocation goes on record
ReturnRecorded ==
    /\ pc = "done"
    /\ history' =
          [recorded |-> TRUE, valves |-> valves, fs |-> fs, command |-> command,
           working_dir |-> working_dir, timeout |-> timeout,
           warning_msg |-> warning_msg, outcome |-> outcome, shell_cmd |-> shell_cmd,
           proc |-> proc, spawnCount |-> spawnCount, terminal |-> terminal,
           result |-> result]
    /\ pc' = "idle"
    /\ command' = None
    /\ working_dir' = None
    /\ timeout' = 0
    /\ warning_msg' = ""
    /\ cmd_timeout' = 0
    /\ cwd' = None
    /\ proc' = NoProc
    /\ spawnCount' = 0
    /\ terminal' = "none"
    /\ result' = None
    /\ shell_cmd' = <<>>
    /\ outcome' = NoOutcome
    /\ alive' = {}
    /\ UNCHANGED <<valves, system, fs, others>>

NextHistory ==
    \/ FsChange
    \/ SetAllowSudo
    \/ CallRecorded
    \/ CheckEmpty
    \/ CheckBlocked
    \/ ComputeWarnings
    \/ GetTimeout
    \/ ResolveWorkingDir
    \/ SelectShell
    \/ Spawn
    \/ ProcessCompletesBriefly
    \/ ProcessTimesOut
    \/ LaunchFails
    \/ ReturnRecorded

SpecHistory == Init /\ [][NextHistory]_vars

-----------------------------------------------------------------------------
(* Vocabulary of the properties *)

\* an invocation is in progress or has just ended
Invoked == pc # "idle"

\* the invocation has passed the step at which the gate decides
PastGate == pc \notin {"idle", "check_empty", "classify"}

\* cmd contains, case-insensitively, a substring of the built-in list
ContainsDenied(cmd) ==
    LET lowered == Lower(cmd)
    IN  \E pattern \in BLOCKED_LOWER : Contains(lowered, pattern)

\* the commands of the model that do, computed once
DenyListedCommands == {c \in Commands : ContainsDenied(c)}

\* the command of the invocation contains a deny-listed substring
DenyListed(cmd) == cmd \in DenyListedCommands

BlockedText == "Error: This command is blocked for safety reasons."

\* s.split(sep)
RECURSIVE Split(_, _)
Split(s, sep) ==
    IF ~Contains(s, sep) THEN <<s>>
    ELSE LET i == CHOOSE k \in 1..Len(s) :
                     /\ SubSeq(s, k, k + Len(sep) - 1) = sep
                     /\ \A j \in 1..(k - 1) : SubSeq(s, j, j + Len(sep) - 1) # sep
         IN  <<SubSeq(s, 1, i - 1)>> \o Split(SubSeq(s, i + Len(sep), Len(s)), sep)

\* the patterns listed in the blocked_commands setting
ConfiguredPatterns ==
    LET parts == Split(valves.blocked_commands, ",")
    IN  {Strip(parts[i]) : i \in 1..Len(parts)} \ {""}

-----------------------------------------------------------------------------
(* The deny-list gate *)

\* C1: a command that contains, case-insensitively, a substring of
\* BLOCKED_COMMANDS never has a subprocess spawned for it, and its invocation
\* ends Blocked with an error text that contains the word "blocked".
C1_DenyListedIsBlocked ==
    (Invoked /\ DenyListed(command)) =>
        /\ spawnCount = 0
        /\ proc = NoProc
        /\ pc \in {"check_empty", "classify", "done"}
        /\ pc = "done" =>
              /\ terminal = "Blocked"
              /\ StartsWith(result, "Error:")
              /\ Contains(result, "blocked")

\* C1 happens: a command matching the list only after lower-casing is Blocked
C1_Witness ==
    /\ pc = "done"
    /\ terminal = "Blocked"
    /\ DenyListed(command)
    /\ \A pattern \in BLOCKED_COMMANDS : ~Contains(command, pattern)
    /\ Contains(result, "blocked")

\* C2: the gate is unconditional. Whatever working_dir and timeout are passed
\* and whatever the valves hold, a deny-listed command that has left the
\* classification step is in the Blocked terminal state with the fixed Blocked
\* text; no argument was consulted before the gate (no timeout was selected, no
\* working directory resolved) and nothing was spawned.
C2_GateUnconditional ==
    (PastGate /\ DenyListed(command)) =>
        /\ pc = "done"
        /\ terminal = "Blocked"
        /\ result = BlockedText
        /\ working_dir \in WorkingDirs
        /\ spawnCount = 0
        /\ proc = NoProc
        /\ cmd_timeout = 0
        /\ cwd = None

\* C2 happens: a command with sudo is Blocked although allow_sudo is set
C2_Witness_AllowSudo ==
    /\ pc = "done"
    /\ terminal = "Blocked"
    /\ valves.allow_sudo
    /\ Contains(Lower(command), "sudo")

\* C3: every pattern listed in the blocked_commands setting is part of the
\* effective deny-list: a command containing it is Blocked and not spawned.
C3_ConfiguredPatternsBlock ==
    \A pattern \in ConfiguredPatterns :
        (PastGate /\ Contains(Lower(command), Lower(pattern))) =>
            /\ pc = "done"
            /\ terminal = "Blocked"
            /\ spawnCount = 0

-----------------------------------------------------------------------------
(* Warnings *)

\* the warn-listed tokens
WarnTokens == {"sudo", "admin", "password", "delete", "remove"}

\* every character of the command is whitespace
Blank(cmd) == \A i \in 1..Len(cmd) : CharAt(cmd, i) \in Whitespace

\* the commands of the model whose classification yields Warned, computed once
WarnedCommands ==
    {c \in Commands :
        /\ ~Blank(c)
        /\ ~ContainsDenied(c)
        /\ \E tok \in WarnTokens : Contains(Lower(c), tok)}

\* classification of the command of the invocation yields Warned
Warned(cmd) == cmd \in WarnedCommands

\* the number of places at which p occurs in s
CountOf(s, p) ==
    Cardinality({i \in 1..(Len(s) - Len(p) + 1) : SubSeq(s, i, i + Len(p) - 1) = p})

\* text up to and including the first occurrence of mark ("" if there is none)
UpTo(text, mark) ==
    IF ~Contains(text, mark) THEN ""
    ELSE LET i == CHOOSE k \in 1..Len(text) :
                     /\ SubSeq(text, k, k + Len(mark) - 1) = mark
                     /\ \A j \in 1..(k - 1) : SubSeq(text, j, j + Len(mark) - 1) # mark
         IN  SubSeq(text, 1, i + Len(mark) - 1)

\* the warn tokens each command contains once lower-cased
MatchedTokens ==
    [c \in Commands |-> LET low == Lower(c)
                        IN  {tok \in WarnTokens : Contains(low, tok)}]

\* text begins with the aggregated warning prefix for cmd: one message for
\* each warn token cmd contains, none for a token it does not contain
HasWarningPrefix(text, cmd) ==
    /\ StartsWith(text, "[Warning: ")
    /\ \A prefix \in {UpTo(text, "]\n\n")} :
          \A tok \in WarnTokens :
             CountOf(prefix, "Command contains '" \o tok \o "'")
                 = IF tok \in MatchedTokens[cmd] THEN 1 ELSE 0

\* the working directory passed, as the code resolves it
ResolvedDir(wd) == IF StartsWith(wd, "~") THEN ExpandUser(wd) ELSE wd

\* a working directory was supplied and is not an existing directory
BadDir(wd) == wd # "" /\ ~(ResolvedDir(wd) \in DOMAIN fs /\ fs[ResolvedDir(wd)] = "dir")

\* C4 as stated: for every Warned command run_command spawns a process, and
\* on normal completion the returned text begins with the warning prefix, one
\* message per matched token.
C4_WarnedAlwaysSpawns ==
    (pc = "done" /\ Warned(command)) =>
        /\ spawnCount = 1
        /\ terminal = "Completed" => HasWarningPrefix(result, command)

\* C4 amended: the same for every Warned command called with no working
\* directory or with an existing one; with a working directory that is not an
\* existing directory the invocation ends with the working-directory error
\* and nothing is spawned.
C4_WarnedSpawnsInValidDir ==
    (pc = "done" /\ Warned(command)) =>
        IF BadDir(working_dir)
        THEN terminal = "BadWorkingDir" /\ spawnCount = 0
        ELSE /\ spawnCount = 1
             /\ proc.args[Len(proc.args)] = command
             /\ terminal \in {"Completed", "TimedOut", "LaunchFailed"}
             /\ terminal = "Completed" => HasWarningPrefix(result, command)

\* C4 happens: a command matching two tokens, one only after lower-casing,
\* completes in a supplied directory with both messages in front
C4_Witness ==
    /\ pc = "done"
    /\ terminal = "Completed"
    /\ Warned(command)
    /\ working_dir # ""
    /\ Contains(command, "sudo")
    /\ Contains(command, "Password")
    /\ StartsWith(result,
           "[Warning: Command contains 'sudo'; Command contains 'password']\n\n")

\* C5 as stated: after a Warned classification the warning text is in front
\* of the result in each of Completed, TimedOut and LaunchFailed.
C5_WarningOnEveryOutcome ==
    (pc = "done" /\ Warned(command)
        /\ terminal \in {"Completed", "TimedOut", "LaunchFailed"}) =>
        HasWarningPrefix(result, command)

\* C5 amended: after a Warned classification the warning text is in front of
\* the result exactly when the invocation ends Completed; a TimedOut or
\* LaunchFailed result is the bare error string, with no warning text in it.
C5_WarningOnlyOnCompleted ==
    (pc = "done" /\ Warned(command)) =>
        /\ terminal = "Completed" => HasWarningPrefix(result, command)
        /\ terminal \in {"TimedOut", "LaunchFailed"} =>
              /\ StartsWith(result, "Error")
              /\ ~Contains(result, "[Warning:")
              /\ ~Contains(result, "Command contains")

\* C5 happens: a Warned command times out and the result has no warning
C5_Witness ==
    /\ pc = "done"
    /\ terminal = "TimedOut"
    /\ Warned(command)
    /\ warning_msg # ""
    /\ StartsWith(result, "Error: Command timed out")

-----------------------------------------------------------------------------
(* Input validation *)

\* C6 as stated: a supplied working directory that is not an existing
\* directory ends the invocation with "Working directory not found" and
\* nothing is spawned; a spawn with a working directory follows its validation.
C6_BadDirAlwaysReported ==
    /\ (Invoked /\ BadDir(working_dir)) =>
          /\ spawnCount = 0
          /\ pc = "done" =>
                /\ terminal = "BadWorkingDir"
                /\ StartsWith(result, "Error: Working directory not found")
    /\ (spawnCount > 0 /\ proc.cwd # None) =>
          fs[proc.cwd] = "dir"

\* C6 amended: the same for a command that is neither empty nor deny-listed;
\* an empty or deny-listed command is rejected before the working directory is
\* looked at, and also then nothing is spawned.
C6_BadDirReportedAfterGate ==
    /\ (Invoked /\ BadDir(working_dir)) =>
          /\ spawnCount = 0
          /\ pc = "done" =>
                IF Blank(command) THEN terminal = "Empty"
                ELSE IF DenyListed(command) THEN terminal = "Blocked"
                ELSE /\ terminal = "BadWorkingDir"
                     /\ result = "Error: Working directory not found: "
                                     \o ResolvedDir(working_dir)
    /\ (spawnCount > 0) =>
          \/ proc.cwd = None /\ working_dir = ""
          \/ proc.cwd = working_dir /\ proc.cwd \in DOMAIN fs /\ fs[proc.cwd] = "dir"

\* C6 happens: a path that exists but is a file is reported, nothing spawned
C6_Witness ==
    /\ pc = "done"
    /\ terminal = "BadWorkingDir"
    /\ working_dir = "/etc/hosts"
    /\ fs["/etc/hosts"] = "file"
    /\ spawnCount = 0

\* C7: an empty or whitespace-only command is rejected at once with "No
\* command provided": no warning is computed, no timeout selected, no working
\* directory resolved and nothing spawned for it; a command that reaches
\* classification or any later step is non-empty after trimming.
C7_EmptyRejectedFirst ==
    /\ (Invoked /\ Blank(command)) =>
          /\ pc \in {"check_empty", "done"}
          /\ pc = "done" =>
                /\ terminal = "Empty"
                /\ result = "Error: No command provided."
          /\ warning_msg = ""
          /\ cmd_timeout = 0
          /\ cwd = None
          /\ spawnCount = 0
    /\ (pc \notin {"idle", "check_empty"} /\ terminal # "Empty") => ~Blank(command)

\* C7 happens: a command of spaces only is rejected
C7_Witness ==
    /\ pc = "done"
    /\ terminal = "Empty"
    /\ command # ""
    /\ Blank(command)

-----------------------------------------------------------------------------
(* Timeouts *)

\* a subprocess.run call was made; proc.timeout is the timeout it was given
Spawned == spawnCount > 0

\* n limited to the range 1..120
Clamped(n) == IF n < 1 THEN 1 ELSE IF n > 120 THEN 120 ELSE n

\* C8 as stated: a negative requested timeout runs the subprocess with an
\* effective timeout of 1 second.
C8_NegativeTimeoutIsOne ==
    (Spawned /\ timeout < 0) => proc.timeout = 1

\* C8 amended: a negative requested timeout is treated like 0: the subprocess
\* runs with the configured default_timeout limited to 1..120 (30 seconds under
\* the default configuration), which is 1 only for a default_timeout below 2.
C8_NegativeTimeoutIsDefault ==
    (Spawned /\ timeout < 0) =>
        /\ proc.timeout = Clamped(valves.default_timeout)
        /\ valves = DefaultValves => proc.timeout = 30
        /\ proc.timeout = 1 <=> valves.default_timeout < 2

\* C8 happens: run_command(..., timeout=-5) runs with 45 seconds
C8_Witness ==
    /\ Spawned
    /\ timeout = -5
    /\ valves.default_timeout = 45
    /\ proc.timeout = 45

\* C9: for a default_timeout in its range 1..120, a requested timeout of 0
\* runs the subprocess with default_timeout; a requested timeout above 120
\* runs it with exactly 120; a requested timeout in 1..120 is used unchanged.
C9_TimeoutSelection ==
    Spawned =>
        /\ (timeout = 0 /\ valves.default_timeout \in 1..120) =>
              proc.timeout = valves.default_timeout
        /\ timeout > 120 => proc.timeout = 120
        /\ timeout \in 1..120 => proc.timeout = timeout

\* C9 happens: a request of 9999 seconds runs with 120
C9_Witness ==
    /\ Spawned
    /\ timeout = 9999
    /\ proc.timeout = 120

\* C10: an invocation that ends TimedOut returns the timeout error, and the
\* seconds it names are the effective timeout given to the subprocess (a value
\* in 1..120), also when the requested value differs from it.
C10_TimeoutErrorNamesEffective ==
    (pc = "done" /\ terminal = "TimedOut") =>
        /\ Spawned
        /\ proc.timeout \in 1..120
        /\ result = "Error: Command timed out after " \o ToString(proc.timeout)
                        \o " seconds."
        /\ \A n \in Timeouts \ {proc.timeout} :
              ~Contains(result, "after " \o ToString(n) \o " seconds")

\* C10 happens: a request of 9999 seconds times out after 120 seconds
C10_Witness ==
    /\ pc = "done"
    /\ terminal = "TimedOut"
    /\ timeout = 9999
    /\ result = "Error: Command timed out after 120 seconds."


-----------------------------------------------------------------------------
(* Process lifetime *)

\* C11 as stated: on every exit path after a spawn (normal completion,
\* timeout, launch failure) no process started by the invocation is still
\* running when run_command returns; on timeout the interpreter and whatever
\* it had started have been terminated and reaped.
C11_NoProcessOutlivesInvocation ==
    (pc = "done" /\ Spawned) => alive = {}

-----------------------------------------------------------------------------
(* Termination and the returned string *)

\* the return statements of run_command
TerminalStates ==
    {"Empty", "Blocked", "BadWorkingDir", "Completed", "TimedOut", "LaunchFailed"}

\* the statements of run_command in the order of the source text
Positions ==
    <<"check_empty", "classify", "warn", "timeout", "workdir", "shell", "spawn",
      "running", "done">>

\* how far the invocation has come (0: not a position of run_command)
PositionOf(p) ==
    IF \E i \in DOMAIN Positions : Positions[i] = p
    THEN CHOOSE i \in DOMAIN Positions : Positions[i] = p
    ELSE 0

\* one statement of the current invocation
InvocationStep ==
    \/ CheckEmpty
    \/ CheckBlocked
    \/ ComputeWarnings
    \/ GetTimeout
    \/ ResolveWorkingDir
    \/ SelectShell
    \/ Spawn
    \/ ProcessCompletes
    \/ ProcessTimesOut
    \/ LaunchFails

\* C12: every invocation terminates in exactly one terminal state and returns
\* a string.  Every statement of an invocation moves it forward in the source
\* text, so that it ends after at most nine steps; it ends only in one of the
\* six terminal states and then with a string as its result; once it has ended
\* its only step is the return to the caller; and no position stands for an
\* exception that left run_command.
C12_TerminatesWithString ==
    /\ [](pc = "idle" \/ PositionOf(pc) > 0)
    /\ [](pc = "done" <=> terminal \in TerminalStates)
    /\ [](pc # "done" <=> terminal = "none")
    /\ [](pc = "done" => result # None /\ result \in STRING)
    /\ [][(Invoked /\ pc # "done") => PositionOf(pc') > PositionOf(pc)]_vars
    /\ [][pc = "done" => pc' = "idle" /\ terminal' = "none"]_vars

\* C12 happens: an exception of the spawn other than the two named ones ends
\* the invocation with a string
C12_Witness ==
    /\ pc = "done"
    /\ terminal = "LaunchFailed"
    /\ outcome.kind = "OSError"
    /\ StartsWith(result, "Error executing command: ")

-----------------------------------------------------------------------------
(* The encoding of the outcome in the returned string *)

\* output as run_command merges it from the two streams of the process
MergedOutput ==
    IF outcome.stdout # "" /\ outcome.stderr # ""
    THEN outcome.stdout \o "\n--- stderr ---\n" \o outcome.stderr
    ELSE outcome.stdout \o outcome.stderr

\* C13 as stated: every failure outcome (empty command, Blocked, working
\* directory not found, timeout, command not found, permission denied, any
\* other launch error) is a string that starts with "Error:", and a completion
\* with exit code 0 and no warning starts with "Error:" only if the command's
\* own output does.
C13_FailuresStartWithErrorColon ==
    /\ (pc = "done" /\ terminal # "Completed") => StartsWith(result, "Error:")
    /\ (pc = "done" /\ terminal = "Completed" /\ outcome.returncode = 0
           /\ warning_msg = "" /\ StartsWith(result, "Error:")) =>
          StartsWith(MergedOutput, "Error:")

\* s.endswith(p)
EndsWith(s, p) == Len(s) >= Len(p) /\ SubSeq(s, Len(s) - Len(p) + 1, Len(s)) = p

\* the marker run_command appends for exit code n
ExitCodeMarker(n) == "\n\n[Exit code: " \o ToString(n) \o "]"

\* subprocess.run returned: the process ran to its end
Finished == pc = "done" /\ outcome.kind = "CompletedProcess"

\* C14: a command that completes with a non-zero exit code N is not reported
\* as an error: the invocation ends Completed, the result is no error string,
\* it carries the captured output (whole, unless it was cut or was blank) and
\* ends with the marker "[Exit code: N]"; with exit code 0 the result ends
\* with no exit-code marker.
C14_ExitCodeAnnotated ==
    Finished =>
        /\ terminal = "Completed"
        /\ IF outcome.returncode # 0
           THEN /\ EndsWith(result, ExitCodeMarker(outcome.returncode))
                /\ ~StartsWith(result, "Error")
                /\ \A merged \in {MergedOutput} :
                      (Len(merged) <= _get_max_output /\ ~Blank(merged)) =>
                          result = warning_msg \o merged
                                       \o ExitCodeMarker(outcome.returncode)
           ELSE \A n \in ReturnCodes : ~EndsWith(result, ExitCodeMarker(n))

\* C14 happens: a command prints to both streams and exits with code 7
C14_Witness ==
    /\ Finished
    /\ outcome.returncode = 7
    /\ outcome.stdout = "hello\n"
    /\ outcome.stderr = "oops\n"
    /\ result = "hello\n\n--- stderr ---\noops\n\n\n[Exit code: 7]"

-----------------------------------------------------------------------------
(* Truncation *)

\* the configured maximum, in characters
ConfiguredMaximum == valves.max_output_kb * 1024

\* the fixed notice that follows a cut, naming the limit
TruncationNotice ==
    "\n\n[Output truncated at " \o ToString(ConfiguredMaximum) \o " characters]"

\* the merged output of the finished process is longer than the maximum
TooLong == Finished /\ Len(MergedOutput) > ConfiguredMaximum

\* C15 as stated: when the merged output is longer than the configured
\* maximum, the returned string has length exactly the maximum plus the length
\* of the truncation notice, and the notice names the limit applied.
C15_TruncatedLengthExact ==
    TooLong =>
        /\ Len(result) = ConfiguredMaximum + Len(TruncationNotice)
        /\ EndsWith(result, TruncationNotice)

\* C15 amended: when the merged output is longer than the maximum and not
\* whitespace-only, the returned string is the warning prefix (if any), the
\* first maximum characters of the merged output, the notice naming the
\* maximum, and the exit-code marker if the exit code is not 0; its length is
\* the sum of the four, which is maximum plus notice for a command without
\* warning that exits 0.  Whitespace-only output is replaced by the
\* placeholder first, and the placeholder is cut only if it is itself longer
\* than the maximum.
C15_TruncatedLengthWithAffixes ==
    TooLong =>
        LET max    == ConfiguredMaximum
            marker == IF outcome.returncode # 0
                      THEN ExitCodeMarker(outcome.returncode) ELSE ""
            start  == Len(warning_msg)
            placeholder == "(Command completed with no output)"
        IN  IF \E merged \in {MergedOutput} : ~Blank(merged)
            THEN /\ Len(result) = start + max + Len(TruncationNotice) + Len(marker)
                 /\ StartsWith(result, warning_msg)
                 /\ SubSeq(result, start + 1, start + max) = SubSeq(MergedOutput, 1, max)
                 /\ EndsWith(result, TruncationNotice \o marker)
                 /\ (warning_msg = "" /\ outcome.returncode = 0) =>
                       Len(result) = max + Len(TruncationNotice)
            ELSE IF Len(placeholder) > max
            THEN result = warning_msg \o SubSeq(placeholder, 1, max)
                              \o TruncationNotice \o marker
            ELSE result = warning_msg \o placeholder \o marker

\* C15 happens: more than a kilobyte of output under a limit of one kilobyte,
\* from a command without warning that exits 0
C15_Witness ==
    /\ TooLong
    /\ valves.max_output_kb = 1
    /\ outcome.stdout = LongOutput
    /\ outcome.returncode = 0
    /\ warning_msg = ""
    /\ Len(result) = 1024 + Len("\n\n[Output truncated at 1024 characters]")
    /\ EndsWith(result, "[Output truncated at 1024 characters]")

-----------------------------------------------------------------------------
(* Order of the steps; single attempt *)

\* the invocation is past classification: the command was found Warned or
\* Clean and the warning text was built from it
ClassifiedWarnedOrClean ==
    /\ ~Blank(command)
    /\ ~DenyListed(command)
    /\ (warning_msg # "") <=> Warned(command)

\* the invocation is past the directory check, which passed
DirectoryCheckPassed ==
    \/ working_dir = "" /\ cwd = None
    \/ /\ working_dir # ""
       /\ cwd = working_dir
       /\ working_dir \in DOMAIN fs
       /\ fs[working_dir] = "dir"

\* C16: classification comes before working-directory validation, which
\* comes before spawning: a command that is both deny-listed and given a
\* working directory that does not exist ends Blocked, the directory check is
\* reached only by a command classified Warned or Clean, and the spawn and the
\* states Completed, TimedOut and LaunchFailed only by such a command whose
\* directory check passed.
C16_ClassifyThenDirectoryThenSpawn ==
    /\ (pc = "done" /\ DenyListed(command) /\ BadDir(working_dir)) =>
          /\ terminal = "Blocked"
          /\ result = BlockedText
    /\ (pc = "workdir" \/ terminal = "BadWorkingDir") => ClassifiedWarnedOrClean
    /\ (pc \in {"shell", "spawn", "running"} \/ Spawned
           \/ terminal \in {"Completed", "TimedOut", "LaunchFailed"}) =>
          /\ ClassifiedWarnedOrClean
          /\ DirectoryCheckPassed

\* C16 happens: a deny-listed command with a working directory that does not
\* exist ends Blocked
C16_Witness ==
    /\ pc = "done"
    /\ DenyListed(command)
    /\ working_dir = "/definitely/not/real"
    /\ terminal = "Blocked"
    /\ spawnCount = 0

\* C17: nothing is retried.  An invocation makes at most one subprocess.run
\* call; the call is made only before any outcome is known; and once the
\* process has finished (with any exit code), timed out or failed to launch,
\* the count of calls stays as it is until the invocation has returned.
C17_SingleAttempt ==
    /\ [](spawnCount <= 1)
    /\ [][spawnCount' > spawnCount =>
             /\ spawnCount = 0
             /\ outcome = NoOutcome
             /\ terminal = "none"]_vars
    /\ [][outcome # NoOutcome =>
             /\ pc = "done"
             /\ pc' = "idle"
             /\ spawnCount' = 0]_vars

\* C17 happens: a command timed out and the invocation ended after its one
\* subprocess.run call
C17_Witness ==
    /\ pc = "done"
    /\ terminal = "TimedOut"
    /\ outcome.kind = "TimeoutExpired"
    /\ spawnCount = 1

-----------------------------------------------------------------------------
(* The shell profile across invocations *)

\* this invocation and the previous one both selected a shell
TwoSelections ==
    /\ history.recorded
    /\ history.shell_cmd # <<>>
    /\ shell_cmd # <<>>

\* the interpreter _get_shell prefers on this host exists in filesystem f
PreferredPresent(f) ==
    IF system = "Windows" THEN f[POWERSHELL] # "absent" ELSE f["/bin/bash"] # "absent"

\* the profiles of a POSIX host
PosixProfiles == {<<"/bin/bash", "-c">>, <<"/bin/sh", "-c">>}

\* C18 as stated: the shell profile is selected once per process: every
\* invocation uses the interpreter and flags of the one before, even if the
\* existence of the probed interpreters changed in between.
C18_ProfileFixedPerProcess ==
    TwoSelections => shell_cmd = history.shell_cmd

\* C18 amended: the profile is selected anew in every invocation from the
\* host OS, which is fixed for the process, and from the interpreters that
\* exist at that moment: two invocations use the same interpreter and flags
\* exactly when the preferred interpreter exists at both or at neither, and
\* otherwise they use the two profiles of the same OS family.
C18_ProfileFollowsFilesystem ==
    TwoSelections =>
        /\ (shell_cmd = history.shell_cmd)
              <=> (PreferredPresent(fs) <=> PreferredPresent(history.fs))
        /\ (shell_cmd \in PosixProfiles) <=> (history.shell_cmd \in PosixProfiles)
        /\ (shell_cmd \in PosixProfiles) <=> (system # "Windows")

\* C18 happens: /bin/bash was removed between two invocations and the
\* second one runs /bin/sh
C18_Witness ==
    /\ TwoSelections
    /\ pc = "done"
    /\ history.shell_cmd = <<"/bin/bash", "-c">>
    /\ shell_cmd = <<"/bin/sh", "-c">>
    /\ proc.args[1] = "/bin/sh"

\* the profile for each host OS and each state of the probed interpreters
ProfileTable ==
    [os \in {"Linux", "Windows"} |->
        [preferred \in BOOLEAN |->
            IF os = "Windows"
            THEN IF preferred THEN <<"powershell", "-NoProfile", "-Command">>
                 ELSE <<"cmd", "/c">>
            ELSE IF preferred THEN <<"/bin/bash", "-c">>
                 ELSE <<"/bin/sh", "-c">>]]

\* C19: shell selection is deterministic and free of side effects.  The
\* profile an invocation selected is the one entry of the table for its host
\* OS and for whether the preferred interpreter exists (bash before sh on a
\* POSIX host, PowerShell before cmd on Windows), so that two selections on
\* the same OS and filesystem agree; and the selection step assigns shell_cmd
\* and nothing else: no process is spawned and no other state changes.
C19_SelectionIsAFunctionOfHost ==
    /\ [](shell_cmd # <<>> => shell_cmd = ProfileTable[system][PreferredPresent(fs)])
    /\ [][pc = "shell" =>
             /\ pc' = "spawn"
             /\ spawnCount' = spawnCount
             /\ alive' = alive
             /\ proc' = proc
             /\ UNCHANGED <<valves, system, fs, command, working_dir, timeout,
                            warning_msg, cmd_timeout, cwd, terminal, result,
                            outcome, history, others>>]_vars

\* C19 happens: with /bin/bash absent the selection yields /bin/sh and
\* nothing has been spawned by it
C19_Witness ==
    /\ pc = "spawn"
    /\ system = "Linux"
    /\ fs["/bin/bash"] = "absent"
    /\ shell_cmd = <<"/bin/sh", "-c">>
    /\ spawnCount = 0
    /\ alive = {}

-----------------------------------------------------------------------------
(* allow_sudo *)

\* this invocation has ended and repeats the previous one (same command,
\* working directory, timeout and filesystem) with only allow_sudo switched
SameCallOtherAllowSudo ==
    /\ pc = "done"
    /\ history.recorded
    /\ history.valves.allow_sudo # valves.allow_sudo
    /\ [history.valves EXCEPT !.allow_sudo = valves.allow_sudo] = valves
    /\ history.fs = fs
    /\ history.command = command
    /\ history.working_dir = working_dir
    /\ history.timeout = timeout

\* the terminal states before the spawn
GateStates == {"Empty", "Blocked", "BadWorkingDir"}

-----------------------------------------------------------------------------
(* The reason of a Blocked result *)

\* the deny-list patterns the lower-cased command contains
MatchedPatterns(cmd) ==
    LET lowered == Lower(cmd)
    IN  {pattern \in BLOCKED_LOWER : Contains(lowered, pattern)}

\* C22 as stated: a Blocked result carries the matched deny-list pattern as
\* its reason: the string returned for a blocked command names a deny-listed
\* substring that the command contains.
C22_BlockedNamesPattern ==
    (pc = "done" /\ terminal = "Blocked") =>
        \E pattern \in MatchedPatterns(command) : Contains(result, pattern)

-----------------------------------------------------------------------------
(* The range of the effective timeout *)

\* the steps at which the local cmd_timeout holds the effective timeout
TimeoutChosen == pc \in {"workdir", "shell", "spawn", "running"}

\* C23: the effective timeout is an integer in 1..120 from the moment it is
\* computed, and so is the timeout given to subprocess.run, for every
\* requested timeout (negative, zero, positive) and every configured
\* default_timeout, also one that is zero, negative or above 120.
C23_EffectiveTimeoutInRange ==
    /\ TimeoutChosen => cmd_timeout \in 1..120
    /\ Spawned => (proc.timeout \in 1..120 /\ proc.timeout = cmd_timeout)

\* C23 happens: a default_timeout of 500 and no requested timeout run the
\* subprocess with 120 seconds
C23_Witness ==
    /\ Spawned
    /\ valves.default_timeout = 500
    /\ timeout = 0
    /\ proc.timeout = 120

-----------------------------------------------------------------------------
(* The exit-code marker after a cut; the placeholder *)

Placeholder == "(Command completed with no output)"

\* the output run_command reports for the finished process before cutting:
\* the merged output, or the placeholder in place of blank output
ReportedOutput == IF Blank(MergedOutput) THEN Placeholder ELSE MergedOutput

\* the reported output was longer than the maximum and was cut
WasCut == Finished /\ Len(ReportedOutput) > ConfiguredMaximum

\* C24: on normal completion with a non-zero exit code the returned string
\* ends with the whole marker "[Exit code: N]", also after a cut: the cut is
\* applied to the output before the marker is appended, so the result is the
\* warning prefix, the first maximum characters of the output, the whole
\* truncation notice and the whole marker.
C24_MarkerAfterTruncation ==
    (Finished /\ outcome.returncode # 0) =>
        \A reported \in {ReportedOutput} :
            IF Len(reported) > ConfiguredMaximum
            THEN result = warning_msg \o SubSeq(reported, 1, ConfiguredMaximum)
                              \o TruncationNotice
                              \o ExitCodeMarker(outcome.returncode)
            ELSE result = warning_msg \o reported
                              \o ExitCodeMarker(outcome.returncode)

\* C24 happens: more than a kilobyte of output under a limit of one kilobyte
\* from a command that exits with code 7
C24_Witness ==
    /\ WasCut
    /\ valves.max_output_kb = 1
    /\ outcome.stdout = LongOutput
    /\ outcome.returncode = 7
    /\ EndsWith(result, "[Output truncated at 1024 characters]\n\n[Exit code: 7]")

\* the finished process exited with code 0, its command carried no warning
\* and neither its merged output nor the placeholder exceeds the maximum
PlainCompletion ==
    /\ Finished
    /\ outcome.returncode = 0
    /\ warning_msg = ""
    /\ Len(MergedOutput) <= ConfiguredMaximum
    /\ Len(Placeholder) <= ConfiguredMaximum

\* C25 as stated: the reported stream is stdout followed by stderr, with the
\* separator only when both are non-empty; the placeholder is substituted
\* exactly when the merged output is empty, and otherwise a clean command
\* that exits 0 within the limit returns the captured output unchanged.
C25_PlaceholderExactlyWhenEmpty ==
    PlainCompletion =>
        result = IF MergedOutput = "" THEN Placeholder ELSE MergedOutput

\* C25 amended: the placeholder is substituted exactly when the merged output
\* is empty or consists of whitespace only; any other merged output of a
\* clean command that exits 0 within the limit is returned unchanged: stdout,
\* then, if both streams are non-empty, the separator, then stderr.
C25_PlaceholderWhenBlank ==
    PlainCompletion =>
        /\ \A merged \in {MergedOutput} :
              result = IF Blank(merged) THEN Placeholder ELSE merged
        /\ (outcome.stdout = "hello\n" /\ outcome.stderr = "oops\n") =>
              result = "hello\n\n--- stderr ---\noops\n"
        /\ (outcome.stdout = "hello\n" /\ outcome.stderr = "") => result = "hello\n"
        /\ (outcome.stdout = "" /\ outcome.stderr = "oops\n") => result = "oops\n"

\* C25 happens: a command prints a kilobyte of blanks and exits 0
C25_Witness ==
    /\ PlainCompletion
    /\ outcome.stdout = LongBlank
    /\ outcome.stderr = ""
    /\ result = "(Command completed with no output)"

-----------------------------------------------------------------------------
(* Two threads inside run_command.  Every name run_command assigns is a     *)
(* local of the call, so each thread has its own; the valves, SYSTEM, the    *)
(* module-level lists and the filesystem are the same for both.  One thread  *)
(* runs at a time (the interpreter lock); the frame of the other is kept in  *)
(* suspended.                                                                *)

ConcurrentCommands == {"sudo", "echo Password", "FORMAT"}
ConcurrentTimeouts == {0, 7}

\* the frame of the running thread
Invocation ==
    [pc |-> pc, command |-> command, working_dir |-> working_dir,
     timeout |-> timeout, warning_msg |-> warning_msg, cmd_timeout |-> cmd_timeout,
     cwd |-> cwd, proc |-> proc, spawnCount |-> spawnCount, terminal |-> terminal,
     result |-> result, shell_cmd |-> shell_cmd, outcome |-> outcome,
     alive |-> alive]

\* faulty variant of the thread switch: cmd_timeout is kept in one place for
\* both threads (as an attribute of the tool object would be)
Switch_sharedTimeout ==
    /\ suspended' = [Invocation EXCEPT !.cmd_timeout = 0]
    /\ pc' = suspended.pc
    /\ command' = suspended.command
    /\ working_dir' = suspended.working_dir
    /\ timeout' = suspended.timeout
    /\ warning_msg' = suspended.warning_msg
    /\ cwd' = suspended.cwd
    /\ proc' = suspended.proc
    /\ spawnCount' = suspended.spawnCount
    /\ terminal' = suspended.terminal
    /\ result' = suspended.result
    /\ shell_cmd' = suspended.shell_cmd
    /\ outcome' = suspended.outcome
    /\ alive' = suspended.alive
    /\ UNCHANGED <<valves, system, fs, cmd_timeout, history, op, sql, chain>>

\* the running thread is suspended between two steps and the other resumes:
\* each continues with its own locals
Switch ==
    /\ suspended' = Invocation
    /\ pc' = suspended.pc
    /\ command' = suspended.command
    /\ working_dir' = suspended.working_dir
    /\ timeout' = suspended.timeout
    /\ warning_msg' = suspended.warning_msg
    /\ cmd_timeout' = suspended.cmd_timeout
    /\ cwd' = suspended.cwd
    /\ proc' = suspended.proc
    /\ spawnCount' = suspended.spawnCount
    /\ terminal' = suspended.terminal
    /\ result' = suspended.result
    /\ shell_cmd' = suspended.shell_cmd
    /\ outcome' = suspended.outcome
    /\ alive' = suspended.alive
    /\ UNCHANGED <<valves, system, fs, history, op, sql, chain>>

\* a thread of the host calls run_command(command, timeout=timeout)
CallConcurrent ==
    /\ pc = "idle"
    /\ \E c \in ConcurrentCommands, t \in ConcurrentTimeouts :
          /\ command' = c
          /\ working_dir' = ""
          /\ timeout' = t
    /\ pc' = "check_empty"
    /\ UNCHANGED <<valves, system, fs, warning_msg, cmd_timeout, cwd, proc,
                   spawnCount, terminal, result, shell_cmd, outcome, alive,
                   history, others>>

NextConcurrent ==
    \/ Switch
    \/ CallConcurrent
    \/ CheckEmpty
    \/ CheckBlocked
    \/ ComputeWarnings
    \/ GetTimeout
    \/ ResolveWorkingDir
    \/ SelectShell
    \/ Spawn
    \/ ProcessCompletesBriefly
    \/ ProcessTimesOut
    \/ ReturnRecorded

SpecConcurrent == Init /\ [][NextConcurrent]_vars

\* the invocation that returns now had the arguments of the one on record
SameCallAgain ==
    /\ pc = "done"
    /\ history.recorded
    /\ history.command = command
    /\ history.working_dir = working_dir
    /\ history.timeout = timeout

\* the other thread is inside run_command
OtherThreadInside == suspended.pc # "idle"

\* C21: concurrent invocations are independent.  Whatever the interleaving of
\* the steps of two threads, an invocation has the verdict, the effective
\* timeout, the spawned command and, when its process behaves the same, the
\* result of every other invocation with the same arguments, among them the
\* ones that ran with no other thread inside run_command; and the steps of a
\* thread leave the valves and the frame of the other thread as they are.
C21_ConcurrentInvocationsIndependent ==
    /\ [](SameCallAgain =>
            /\ warning_msg = history.warning_msg
            /\ spawnCount = history.spawnCount
            /\ proc = history.proc
            /\ shell_cmd = history.shell_cmd
            /\ (terminal = "Blocked" \/ history.terminal = "Blocked") =>
                  /\ terminal = history.terminal
                  /\ result = history.result
            /\ (outcome = history.outcome) =>
                  /\ terminal = history.terminal
                  /\ result = history.result)
    /\ [][valves' = valves]_vars
    /\ [][suspended' # suspended => suspended' = Invocation]_vars

\* C21 happens: while the other thread waits for the process of another
\* command, "sudo" completes with the result it had before
C21_Witness ==
    /\ SameCallAgain
    /\ OtherThreadInside
    /\ suspended.pc = "running"
    /\ suspended.command = "echo Password"
    /\ suspended.timeout # timeout
    /\ command = "sudo"
    /\ terminal = "Completed"
    /\ outcome = history.outcome
    /\ result = history.result

-----------------------------------------------------------------------------
(* The composed operations of the tool: each builds command strings and     *)
(* hands them to run_command, one call after the other, and makes its own    *)
(* return value from what run_command returned.                              *)

\* what the run_command calls of the operation have returned so far
ResultsOf(o) == [i \in 1..Len(o.calls) |-> o.calls[i].result]

\* results[i], or "" while the i-th call has not returned
Nth(results, i) == IF i <= Len(results) THEN results[i] ELSE ""

\* the operation returns text without calling run_command
Early(text) == [commands |-> <<>>, value |-> text]

\* the operation calls run_command for each of commands, then returns value
Delegates(commands, value) == [commands |-> commands, value |-> value]

\* text * n
RECURSIVE Repeat(_, _)
Repeat(text, n) == IF n <= 0 THEN "" ELSE text \o Repeat(text, n - 1)

Digits == "0123456789"

\* c.isalnum() for an ASCII character
IsAlnum(c) ==
    \E i \in 1..Len(UpperChars \o LowerChars \o Digits) :
        CharAt(UpperChars \o LowerChars \o Digits, i) = c

\* "".join(c for c in s if c.isalnum() or c in "-_")
RECURSIVE KeepNameChars(_)
KeepNameChars(s) ==
    IF s = "" THEN ""
    ELSE (IF IsAlnum(CharAt(s, 1)) \/ CharAt(s, 1) \in {"-", "_"}
          THEN CharAt(s, 1) ELSE "")
         \o KeepNameChars(SubSeq(s, 2, Len(s)))

\* Tools.quick_search(query, path, file_type)
quick_search(query, path, file_type, results) ==
    LET expanded == IF StartsWith(path, "~") THEN ExpandUser(path) ELSE path
        filter_ext == IF file_type # "*" THEN "-Filter *." \o file_type ELSE ""
        ext_filter == IF file_type # "*" THEN "-name '*." \o file_type \o "'" ELSE ""
        cmd == IF system = "Windows"
               THEN "Get-ChildItem -Path \"" \o expanded \o "\" -Recurse " \o filter_ext
                    \o " -ErrorAction SilentlyContinue | Where-Object { $_.Name -like \"*"
                    \o query \o "*\" } | Select-Object -First 50 FullName, Length, LastWriteTime | Format-Table -AutoSize"
               ELSE "find '" \o expanded \o "' " \o ext_filter \o " -type f -iname '*"
                    \o query \o "*' 2>/dev/null | head -50"
    IN  IF ~Exists(expanded)
        THEN Early("Error: Path not found: " \o expanded)
        ELSE Delegates(<<cmd>>, Nth(results, 1))

\* Tools.search_content(pattern, path, file_type)
search_content(pattern, path, file_type, results) ==
    LET expanded == IF StartsWith(path, "~") THEN ExpandUser(path) ELSE path
        filter_ext == IF file_type # "*" THEN "-Include *." \o file_type ELSE ""
        include == IF file_type # "*" THEN "--include='*." \o file_type \o "'" ELSE ""
        cmd == IF system = "Windows"
               THEN "Get-ChildItem -Path \"" \o expanded \o "\" -Recurse " \o filter_ext
                    \o " -ErrorAction SilentlyContinue | Select-String -Pattern \""
                    \o pattern \o "\" | Select-Object -First 100 | Format-Table -AutoSize Path, LineNumber, Line"
               ELSE "grep -rn '" \o pattern \o "' '" \o expanded \o "' " \o include
                    \o " 2>/dev/null | head -100"
    IN  IF ~Exists(expanded)
        THEN Early("Error: Path not found: " \o expanded)
        ELSE Delegates(<<cmd>>, Nth(results, 1))

\* the keys of the templates dictionary, in its order
TemplateNames == <<"basic", "python", "web", "nodejs", "docker", "data">>

\* the templates dictionary of create_project_structure
Templates ==
    [basic  |-> <<"src", "docs", "tests", "config">>,
     python |-> <<"src", "src/__init__.py", "tests", "tests/__init__.py", "docs",
                  "config", "scripts", "requirements.txt", "README.md", ".gitignore">>,
     web    |-> <<"src", "src/components", "src/pages", "src/utils", "public",
                  "public/images", "public/css", "public/js", "assets", "docs",
                  "README.md">>,
     nodejs |-> <<"src", "src/routes", "src/controllers", "src/models",
                  "src/middleware", "public", "public/css", "public/js", "config",
                  "tests", "package.json", "README.md", ".gitignore">>,
     docker |-> <<"app", "app/src", "config", "scripts", "data", "logs",
                  "docker-compose.yml", "Dockerfile", ".env.example", "README.md">>,
     data   |-> <<"data", "data/raw", "data/processed", "data/external", "notebooks",
                  "models", "models/trained", "models/evaluation", "reports",
                  "reports/figures", "src", "src/data", "src/features", "src/models",
                  "config", "requirements.txt", "README.md">>]

\* the commands create_project_structure appends for one item of a template
ItemCommands(project_path, item) ==
    LET full_path == project_path \o "/" \o item
        name      == Split(item, "/")[Len(Split(item, "/"))]
        parts     == Split(full_path, "/")
        parent    == Join(SubSeq(parts, 1, Len(parts) - 1), "/")
    IN  IF Contains(name, ".")
        THEN <<"mkdir -p '" \o parent \o "'", "touch '" \o full_path \o "'">>
        ELSE <<"mkdir -p '" \o full_path \o "'">>

RECURSIVE StructureCommands(_, _)
StructureCommands(project_path, structure) ==
    IF structure = <<>> THEN <<>>
    ELSE ItemCommands(project_path, Head(structure))
         \o StructureCommands(project_path, Tail(structure))

\* Tools.create_project_structure(project_name, template, base_path): the
\* value of the first run_command call is not looked at
create_project_structure(project_name, template, base_path, results) ==
    LET safe_name == Strip(KeepNameChars(project_name))
        project_path == base_path \o "/" \o safe_name
        commands == <<"mkdir -p '" \o project_path \o "'">>
                    \o StructureCommands(project_path, Templates[template])
        full_script == Join(commands, " && ")
        verify_cmd == "find '" \o project_path \o "' -type d 2>/dev/null | head -30"
        structure_output == Nth(results, 2)
    IN  IF safe_name = ""
        THEN Early("Error: Invalid project name.")
        ELSE IF template \notin DOMAIN Templates
        THEN Early("Error: Unknown template '" \o template \o "'. Available: "
                   \o Join(TemplateNames, ", "))
        ELSE Delegates(<<full_script, verify_cmd>>,
                       "Project '" \o safe_name \o "' created with '" \o template
                       \o "' template!\n\nLocation: " \o project_path
                       \o "\n\nStructure:\n" \o structure_output)

\* Tools.create_folder(folder_path, create_parents)
create_folder(folder_path, create_parents, results) ==
    LET path == IF ~StartsWith(folder_path, "/")
                THEN "/data/projects/" \o folder_path ELSE folder_path
        flag == IF create_parents THEN "-p" ELSE ""
    IN  IF ~(StartsWith(path, "/data/user-files") \/ StartsWith(path, "/data/projects"))
        THEN Early("Error: Can only create folders in writable areas")
        ELSE Delegates(<<"mkdir " \o flag \o " '" \o path \o "' && echo 'Folder created: "
                         \o path \o "'">>,
                       Nth(results, 1))

\* Tools.list_folder(path, show_hidden, details)
list_folder(path, show_hidden, details, results) ==
    LET flags0 == IF details THEN "-la" ELSE "-1"
        flags1 == IF ~show_hidden /\ details THEN "-l" ELSE flags0
        flags  == IF details THEN flags1 \o "h" ELSE flags1
        cmd    == "ls " \o flags \o " '" \o path \o "' 2>/dev/null"
        result0 == Nth(results, 1)
    IN  Delegates(<<cmd>>,
                  IF Contains(result0, "No such file or directory")
                  THEN "Error: Folder not found: " \o path
                  ELSE "Contents of " \o path \o ":\n\n" \o result0)

\* Tools.check_disk_space()
check_disk_space(results) ==
    Delegates(<<"df -h 2>/dev/null | grep -E '^/|Filesystem'">>,
              "Disk Space Usage:\n" \o Repeat("=", 50) \o "\n" \o Nth(results, 1))

\* Tools.check_memory()
check_memory(results) ==
    LET cmd == "grep -E '^(MemTotal|MemFree|MemAvailable|Buffers|Cached|SwapTotal|SwapFree):' /proc/meminfo 2>/dev/null | awk '{\n            val = $2/1024/1024;\n            printf \"%-15s %6.2f GB\\n\", $1, val\n        }'"
        cmd2 == "awk '/MemTotal/{t=$2} /MemAvailable/{a=$2} END{printf \"Used: %.1fG / %.1fG (%.0f%%)\\n\", (t-a)/1024/1024, t/1024/1024, (t-a)/t*100}' /proc/meminfo 2>/dev/null"
        summary == Strip(Nth(results, 2))
    IN  Delegates(<<cmd, cmd2>>,
                  "Memory Usage:\n" \o Repeat("=", 50) \o "\n" \o summary
                  \o "\n\nDetails:\n" \o Nth(results, 1))

\* Tools.server_health()
server_health(results) ==
    LET uptime_raw == Strip(Nth(results, 1))
        disk       == Strip(Nth(results, 2))
        mem_total  == Strip(Nth(results, 3))
        mem_avail  == Strip(Nth(results, 4))
        load       == Strip(Nth(results, 5))
        checks ==
            (IF uptime_raw # "" /\ ~Contains(uptime_raw, "Exit code")
             THEN <<"UPTIME: " \o uptime_raw>> ELSE <<>>)
            \o <<"DISK: " \o disk>>
            \o (IF mem_total # "" /\ mem_avail # "" /\ ~Contains(mem_total, "Exit code")
                THEN <<"MEMORY: " \o mem_avail \o " available of " \o mem_total>>
                ELSE <<>>)
            \o (IF load # "" /\ ~Contains(load, "Exit code")
                THEN <<"LOAD: " \o load \o " (1m 5m 15m)">> ELSE <<>>)
    IN  Delegates(
            <<"cat /proc/uptime 2>/dev/null | awk '{print int($1/86400)\"d \"int(($1%86400)/3600)\"h \"int(($1%3600)/60)\"m\"}'",
              "df -h / 2>/dev/null | tail -1 | awk '{print $5 \" used of \" $2}'",
              "grep MemTotal /proc/meminfo 2>/dev/null | awk '{printf \"%.1fG\", $2/1024/1024}'",
              "grep MemAvailable /proc/meminfo 2>/dev/null | awk '{printf \"%.1fG\", $2/1024/1024}'",
              "cat /proc/loadavg 2>/dev/null | awk '{print $1, $2, $3}'">>,
            "Server Health Check\n" \o Repeat("=", 50) \o "\n" \o Join(checks, "\n")
            \o "\n" \o Repeat("=", 50) \o "\nAll checks complete.")

\* the operation o, given what its run_command calls have returned so far
Plan(o) ==
    LET a == o.args
        results == ResultsOf(o)
    IN  CASE o.name = "quick_search" -> quick_search(a[1], a[2], a[3], results)
          [] o.name = "search_content" -> search_content(a[1], a[2], a[3], results)
          [] o.name = "create_project_structure" ->
                 create_project_structure(a[1], a[2], a[3], results)
          [] o.name = "create_folder" -> create_folder(a[1], a[2], results)
          [] o.name = "list_folder" -> list_folder(a[1], a[2], a[3], results)
          [] o.name = "check_disk_space" -> check_disk_space(results)
          [] o.name = "check_memory" -> check_memory(results)
          [] o.name = "server_health" -> server_health(results)

\* the calls of the composed operations the host makes
OpCalls ==
    {<<"quick_search", <<q, p, t>>>> :
        q \in {"notes", "Format"}, p \in {"~", "/nowhere"}, t \in {"*", "txt"}}
    \cup {<<"search_content", <<q, p, "py">>>> :
        q \in {"TODO", "reboot"}, p \in {"/data/user-files", "/nowhere"}}
    \cup {<<"create_project_structure", <<n, t, "/data/projects">>>> :
        n \in {"demo", "my format!", "!!"}, t \in {"basic", "python", "nope"}}
    \cup {<<"create_folder", <<f, parents>>>> :
        f \in {"notes", "/data/user-files/a", "/etc/cron.d/x", "../outside",
               "/data/projects-old/x", "/data/projects/reformat"},
        parents \in BOOLEAN}
    \cup {<<"list_folder", <<p, flags[1], flags[2]>>>> :
        p \in {"/data/user-files", "/data/halt"},
        flags \in {<<FALSE, TRUE>>, <<TRUE, TRUE>>, <<FALSE, FALSE>>}}
    \cup {<<"check_disk_space", <<>>>>, <<"check_memory", <<>>>>,
          <<"server_health", <<>>>>}

\* the host calls one of the operations
OpCall ==
    /\ pc = "idle"
    /\ op.state = "idle"
    /\ \E call \in OpCalls :
          op' = [name |-> call[1], args |-> call[2], calls |-> <<>>,
                 state |-> "running", result |-> None]
    /\ UNCHANGED <<valves, system, fs, pc, command, working_dir, timeout,
                   warning_msg, cmd_timeout, cwd, proc, spawnCount, terminal,
                   result, shell_cmd, outcome, alive, history, suspended, sql, chain>>

\* faulty variant of the delegation: the operation starts the command itself,
\* past the checks of run_command
OpRunCommand_pastGate ==
    /\ pc = "idle"
    /\ op.state = "running"
    /\ Len(op.calls) < Len(Plan(op).commands)
    /\ command' = Plan(op).commands[Len(op.calls) + 1]
    /\ working_dir' = ""
    /\ timeout' = 0
    /\ pc' = "timeout"
    /\ UNCHANGED <<valves, system, fs, warning_msg, cmd_timeout, cwd, proc,
                   spawnCount, terminal, result, shell_cmd, outcome, alive,
                   history, others>>

\* self.run_command(cmd): the next command of the operation, with the
\* default working_dir and timeout
OpRunCommand ==
    /\ pc = "idle"
    /\ op.state = "running"
    /\ Len(op.calls) < Len(Plan(op).commands)
    /\ command' = Plan(op).commands[Len(op.calls) + 1]
    /\ working_dir' = ""
    /\ timeout' = 0
    /\ pc' = "check_empty"
    /\ UNCHANGED <<valves, system, fs, warning_msg, cmd_timeout, cwd, proc,
                   spawnCount, terminal, result, shell_cmd, outcome, alive,
                   history, others>>

\* run_command returns to the operation
OpCollect ==
    /\ pc = "done"
    /\ op.state = "running"
    /\ op' = [op EXCEPT !.calls =
                 Append(@, [command |-> command, terminal |-> terminal,
                            spawned |-> IF spawnCount > 0 THEN proc.args ELSE <<>>,
                            result |-> result])]
    /\ pc' = "idle"
    /\ command' = None
    /\ working_dir' = None
    /\ timeout' = 0
    /\ warning_msg' = ""
    /\ cmd_timeout' = 0
    /\ cwd' = None
    /\ proc' = NoProc
    /\ spawnCount' = 0
    /\ terminal' = "none"
    /\ result' = None
    /\ shell_cmd' = <<>>
    /\ outcome' = NoOutcome
    /\ alive' = {}
    /\ UNCHANGED <<valves, system, fs, history, suspended, sql, chain>>

\* the return statement of the operation
OpReturn ==
    /\ pc = "idle"
    /\ op.state = "running"
    /\ Len(op.calls) = Len(Plan(op).commands)
    /\ op' = [op EXCEPT !.state = "returned", !.result = Plan(op).value]
    /\ UNCHANGED <<valves, system, fs, pc, command, working_dir, timeout,
                   warning_msg, cmd_timeout, cwd, proc, spawnCount, terminal,
                   result, shell_cmd, outcome, alive, history, suspended, sql, chain>>

\* the host has the value of the operation
OpDone ==
    /\ op.state = "returned"
    /\ op' = NoOp
    /\ UNCHANGED <<valves, system, fs, pc, command, working_dir, timeout,
                   warning_msg, cmd_timeout, cwd, proc, spawnCount, terminal,
                   result, shell_cmd, outcome, alive, history, suspended, sql, chain>>

NextOps ==
    \/ OpCall
    \/ OpRunCommand
    \/ CheckEmpty
    \/ CheckBlocked
    \/ ComputeWarnings
    \/ GetTimeout
    \/ ResolveWorkingDir
    \/ SelectShell
    \/ Spawn
    \/ ProcessCompletesBriefly
    \/ ProcessTimesOut
    \/ LaunchFails
    \/ OpCollect
    \/ OpReturn
    \/ OpDone

SpecOps == Init /\ [][NextOps]_vars

-----------------------------------------------------------------------------
(* The composed operations and the gate *)

\* an operation has been called and has not handed back its value
OpInProgress == op.state = "running"

OpReturned == op.state = "returned"

\* the operations that return the value of run_command as it is
PassThroughOps == {"quick_search", "search_content", "create_folder"}

\* the operations whose commands do not depend on their arguments
FixedCommandOps == {"check_disk_space", "check_memory", "server_health"}

\* the commands of the operations without arguments
FixedCommands ==
    LET all == check_disk_space(<<>>).commands \o check_memory(<<>>).commands
               \o server_health(<<>>).commands
    IN  {all[i] : i \in 1..Len(all)}

\* those of them that contain a deny-listed substring, computed once
FixedCommandsDenied == {c \in FixedCommands : ContainsDenied(c)}

\* cmd contains, case-insensitively, a substring of the built-in list
Denied(cmd) ==
    IF cmd \in FixedCommands THEN cmd \in FixedCommandsDenied ELSE ContainsDenied(cmd)

\* every call in the log of the operation was made with the command the
\* operation constructed, and a process was started for it only with that
\* command as the last argument of the interpreter, after classification
SpawnsThroughRunCommand ==
    \A i \in 1..Len(op.calls) :
        /\ op.calls[i].command = Plan(op).commands[i]
        /\ op.calls[i].spawned # <<>> =>
              /\ op.calls[i].spawned[Len(op.calls[i].spawned)] = op.calls[i].command
              /\ op.calls[i].terminal \in {"Completed", "TimedOut", "LaunchFailed"}
              /\ ~Denied(op.calls[i].command)
        /\ Denied(op.calls[i].command) =>
              /\ op.calls[i].spawned = <<>>
              /\ op.calls[i].terminal = "Blocked"
              /\ op.calls[i].result = BlockedText

\* a command of the returned operation contains a deny-listed substring
SomeCommandDenied ==
    /\ OpReturned
    /\ \E i \in 1..Len(op.calls) : Denied(op.calls[i].command)

\* C26 as stated: every process an operation starts is started by run_command
\* for a command that was classified first, and an operation whose
\* constructed command contains a deny-listed substring returns the Blocked
\* error and spawns nothing.
C26_DeniedOperationReturnsBlocked ==
    /\ (Spawned /\ (OpInProgress \/ OpReturned)) =>
          (proc.args = shell_cmd \o <<command>> /\ ~Denied(command))
    /\ OpReturned => SpawnsThroughRunCommand
    /\ SomeCommandDenied => op.result = BlockedText

\* C26 amended: every process an operation starts is started by run_command
\* for the command the operation constructed, classified first; for a
\* constructed command that contains a deny-listed substring nothing is
\* spawned and run_command returns the Blocked error, which quick_search,
\* search_content and create_folder return as it is, list_folder returns
\* after "Contents of <path>:" and create_project_structure returns as the
\* structure listing of its success message.  The commands of
\* check_disk_space, check_memory and server_health contain no deny-listed
\* substring.
C26_DeniedOperationSpawnsNothing ==
    /\ (Spawned /\ (OpInProgress \/ OpReturned)) =>
          (proc.args = shell_cmd \o <<command>> /\ ~Denied(command))
    /\ OpReturned => SpawnsThroughRunCommand
    /\ SomeCommandDenied =>
          /\ op.name \in PassThroughOps => op.result = BlockedText
          /\ op.name = "list_folder" =>
                op.result = "Contents of " \o op.args[1] \o ":\n\n" \o BlockedText
          /\ op.name = "create_project_structure" =>
                /\ StartsWith(op.result, "Project '")
                /\ EndsWith(op.result, "Structure:\n" \o BlockedText)
          /\ op.name \notin FixedCommandOps
    /\ FixedCommandsDenied = {}

\* C26 happens: quick_search("Format") on a POSIX host is refused
C26_Witness ==
    /\ OpReturned
    /\ system = "Linux"
    /\ op.name = "quick_search"
    /\ op.args[1] = "Format"
    /\ op.calls # <<>>
    /\ op.calls[1].terminal = "Blocked"
    /\ op.calls[1].spawned = <<>>
    /\ op.result = "Error: This command is blocked for safety reasons."

\* C27 as stated: create_project_structure returns its "Project ... created"
\* message only if the run_command call that creates the folders was spawned
\* and completed; when that call ends Blocked, TimedOut or LaunchFailed the
\* operation reports an error instead.
C27_SuccessOnlyAfterCreation ==
    (OpReturned /\ op.name = "create_project_structure" /\ op.calls # <<>>) =>
        /\ StartsWith(op.result, "Project '") =>
              (op.calls[1].spawned # <<>> /\ op.calls[1].terminal = "Completed")
        /\ op.calls[1].terminal \in {"Blocked", "TimedOut", "LaunchFailed"} =>
              StartsWith(op.result, "Error")

\* os.path.normpath of the components of an absolute path
RECURSIVE Resolve(_, _)
Resolve(parts, stack) ==
    IF parts = <<>> THEN stack
    ELSE IF Head(parts) \in {"", "."} THEN Resolve(Tail(parts), stack)
    ELSE IF Head(parts) = ".."
    THEN Resolve(Tail(parts), SubSeq(stack, 1, Len(stack) - 1))
    ELSE Resolve(Tail(parts), Append(stack, Head(parts)))

\* the directory an absolute path names
Normalized(path) == "/" \o Join(Resolve(Split(path, "/"), <<>>), "/")

\* the writable areas of the container
WritableAreas == {"/data/user-files", "/data/projects"}

\* path names a writable area or a place below one
InsideWritable(path) ==
    \E area \in WritableAreas :
        Normalized(path) = area \/ StartsWith(Normalized(path), area \o "/")

\* the path create_folder makes of its argument
FolderTarget(folder_path) ==
    IF StartsWith(folder_path, "/") THEN folder_path
    ELSE "/data/projects/" \o folder_path

\* C28 as stated: create_folder only acts inside the writable areas: a
\* relative folder_path is placed under /data/projects, an absolute one that
\* starts with neither writable area is refused without a call of
\* run_command, and every mkdir that is spawned names a directory inside a
\* writable area.
C28_CreateFolderStaysInWritableAreas ==
    (OpReturned /\ op.name = "create_folder") =>
        /\ (/\ StartsWith(op.args[1], "/")
            /\ ~StartsWith(op.args[1], "/data/user-files")
            /\ ~StartsWith(op.args[1], "/data/projects")) =>
              /\ op.calls = <<>>
              /\ op.result = "Error: Can only create folders in writable areas"
        /\ \A i \in 1..Len(op.calls) :
              /\ StartsWith(op.calls[i].command, "mkdir ")
              /\ Contains(op.calls[i].command, " '" \o FolderTarget(op.args[1]) \o "' ")
              /\ op.calls[i].spawned # <<>> => InsideWritable(FolderTarget(op.args[1]))

-----------------------------------------------------------------------------
(* The SQL tool (src/tools/tool_sql.py): query() and execute() on one        *)
(* SQLite database.  The tool sees the text of a statement; what SQLite      *)
(* does with it is given for the statements of the model.                    *)

\* the upper-case letter of each lower-case letter
LowerToUpper ==
    [c \in {CharAt(LowerChars, i) : i \in 1..Len(LowerChars)} |->
        CharAt(UpperChars, CHOOSE i \in 1..Len(LowerChars) : CharAt(LowerChars, i) = c)]

\* c.upper() for one character
UpperChar(c) == IF c \in DOMAIN LowerToUpper THEN LowerToUpper[c] ELSE c

\* s[i-1:].upper(), computed by halves
RECURSIVE UpperFrom(_, _)
UpperFrom(s, i) ==
    IF i > Len(s) THEN ""
    ELSE IF i = Len(s) THEN UpperChar(CharAt(s, i))
    ELSE LET mid == (i + Len(s)) \div 2
         IN  UpperFrom(SubSeq(s, 1, mid), i) \o UpperFrom(s, mid + 1)

\* str.upper()
Upper(s) == UpperFrom(s, 1)

\* the statements of the model: the text the tool is given, and what it means
\* to SQLite (kind, table, value, and whether a DELETE has a WHERE clause)
Statements ==
    { [text |-> "SELECT * FROM t", kind |-> "select", table |-> "t",
       value |-> 0, where |-> FALSE],
      [text |-> "  select * from somewhere\n", kind |-> "select",
       table |-> "somewhere", value |-> 0, where |-> FALSE],
      [text |-> "INSERT INTO t VALUES (2)", kind |-> "insert", table |-> "t",
       value |-> 2, where |-> FALSE],
      [text |-> "DELETE FROM t", kind |-> "delete", table |-> "t",
       value |-> 0, where |-> FALSE],
      [text |-> "delete from t where x = 1", kind |-> "delete", table |-> "t",
       value |-> 1, where |-> TRUE],
      [text |-> "DELETE FROM somewhere", kind |-> "delete", table |-> "somewhere",
       value |-> 0, where |-> FALSE],
      [text |-> "DROP TABLE t", kind |-> "drop", table |-> "t",
       value |-> 0, where |-> FALSE],
      [text |-> " drop table somewhere", kind |-> "drop", table |-> "somewhere",
       value |-> 0, where |-> FALSE],
      [text |-> "DROP DATABASE main", kind |-> "invalid", table |-> "",
       value |-> 0, where |-> FALSE] }

\* cursor.execute(sql) followed by commit: the database afterwards, rowcount,
\* the rows fetched, and the text of the exception if one is raised
SqliteExecute(stmt, db) ==
    LET done(d, n, rows) == [db |-> d, rowcount |-> n, rows |-> rows, error |-> None]
        fails(text)      == [db |-> db, rowcount |-> -1, rows |-> {}, error |-> text]
    IN  IF stmt.kind = "invalid"
        THEN fails("near \"DATABASE\": syntax error")
        ELSE IF stmt.table \notin DOMAIN db
        THEN fails("no such table: " \o stmt.table)
        ELSE IF stmt.kind = "select"
        THEN done(db, -1, db[stmt.table])
        ELSE IF stmt.kind = "insert"
        THEN IF stmt.value \in db[stmt.table]
             THEN fails("UNIQUE constraint failed: " \o stmt.table \o ".x")
             ELSE done([db EXCEPT ![stmt.table] = @ \cup {stmt.value}], 1, {})
        ELSE IF stmt.kind = "delete"
        THEN LET gone == IF stmt.where THEN db[stmt.table] \cap {stmt.value}
                         ELSE db[stmt.table]
             IN  done([db EXCEPT ![stmt.table] = @ \ gone], Cardinality(gone), {})
        ELSE done([name \in DOMAIN db \ {stmt.table} |-> db[name]], -1, {})

\* the rows of a result, in rowid order, as query() prints them
RECURSIVE RowLines(_)
RowLines(rows) ==
    IF rows = {} THEN <<>>
    ELSE LET least == CHOOSE r \in rows : \A other \in rows : r <= other
         IN  <<"| " \o ToString(least) \o " |">> \o RowLines(rows \ {least})

\* faulty variant of the gate of execute(): the text is tested as given
ExecuteGate_caseSensitive(text) ==
    LET sql_upper == Strip(text)
    IN  IF ~sql.allow_dangerous_operations
        THEN IF Contains(sql_upper, "DROP TABLE") \/ Contains(sql_upper, "DROP DATABASE")
             THEN "DROP operations disabled. Enable in settings."
             ELSE IF Contains(sql_upper, "DELETE FROM") /\ ~Contains(sql_upper, "WHERE")
             THEN "DELETE without WHERE disabled. Enable in settings."
             ELSE None
        ELSE None

\* the checks of execute() before the connection: the message it returns, or
\* None if the statement goes on to the database
ExecuteGate(text) ==
    LET sql_upper == Upper(Strip(text))
    IN  IF ~sql.allow_dangerous_operations
        THEN IF Contains(sql_upper, "DROP TABLE") \/ Contains(sql_upper, "DROP DATABASE")
             THEN "DROP operations disabled. Enable in settings."
             ELSE IF Contains(sql_upper, "DELETE FROM") /\ ~Contains(sql_upper, "WHERE")
             THEN "DELETE without WHERE disabled. Enable in settings."
             ELSE None
        ELSE None

\* the check of query() before the connection
QueryGate(text) ==
    IF ~StartsWith(Upper(Strip(text)), "SELECT")
    THEN "Use query() for SELECT. Use execute() for INSERT/UPDATE/DELETE."
    ELSE None

\* the host switches allow_dangerous_operations between calls
SetAllowDangerous ==
    /\ sql.step = "idle"
    /\ sql' = [sql EXCEPT !.allow_dangerous_operations = ~@]
    /\ UNCHANGED <<valves, system, fs, pc, command, working_dir, timeout,
                   warning_msg, cmd_timeout, cwd, proc, spawnCount, terminal,
                   result, shell_cmd, outcome, alive, history, suspended, op, chain>>

\* the host calls query(db_name, sql) or execute(db_name, sql)
SqlCall ==
    /\ sql.step = "idle"
    /\ \E call \in {"query", "execute"}, stmt \in Statements :
          sql' = [sql EXCEPT !.step = "gate", !.call = call, !.statement = stmt,
                             !.before = sql.db, !.connections = 0,
                             !.result = None]
    /\ UNCHANGED <<valves, system, fs, pc, command, working_dir, timeout,
                   warning_msg, cmd_timeout, cwd, proc, spawnCount, terminal,
                   result, shell_cmd, outcome, alive, history, suspended, op, chain>>

\* the checks before the try block: return a message, or go on
SqlGate ==
    /\ sql.step = "gate"
    /\ LET message == IF sql.call = "query" THEN QueryGate(sql.statement.text)
                      ELSE ExecuteGate(sql.statement.text)
       IN  sql' = IF message # None
                  THEN [sql EXCEPT !.step = "returned", !.result = message]
                  ELSE [sql EXCEPT !.step = "connect"]
    /\ UNCHANGED <<valves, system, fs, pc, command, working_dir, timeout,
                   warning_msg, cmd_timeout, cwd, proc, spawnCount, terminal,
                   result, shell_cmd, outcome, alive, history, suspended, op, chain>>

\* conn = self._connect(db_name)
SqlConnect ==
    /\ sql.step = "connect"
    /\ sql' = [sql EXCEPT !.step = "connected", !.connections = @ + 1]
    /\ UNCHANGED <<valves, system, fs, pc, command, working_dir, timeout,
                   warning_msg, cmd_timeout, cwd, proc, spawnCount, terminal,
                   result, shell_cmd, outcome, alive, history, suspended, op, chain>>

\* cursor.execute(sql, params or []) and the rest of the try block
SqlRun ==
    /\ sql.step = "connected"
    /\ LET ran == SqliteExecute(sql.statement, sql.db)
           sql_upper == Upper(Strip(sql.statement.text))
           rows == ran.rows
           text ==
               IF ran.error # None THEN "Error: " \o ran.error
               ELSE IF sql.call = "query"
               THEN IF rows = {} THEN "No results found."
                    ELSE Join(<<"| x |", "|---|">> \o RowLines(rows), "\n")
                         \o "\n\n" \o ToString(Cardinality(rows)) \o " result(s)"
               ELSE IF StartsWith(sql_upper, "INSERT")
               THEN "Inserted " \o ToString(ran.rowcount) \o " row(s)"
               ELSE IF StartsWith(sql_upper, "UPDATE")
               THEN "Updated " \o ToString(ran.rowcount) \o " row(s)"
               ELSE IF StartsWith(sql_upper, "DELETE")
               THEN "Deleted " \o ToString(ran.rowcount) \o " row(s)"
               ELSE "Statement executed"
       IN  sql' = [sql EXCEPT !.step = "returned", !.db = ran.db, !.result = text]
    /\ UNCHANGED <<valves, system, fs, pc, command, working_dir, timeout,
                   warning_msg, cmd_timeout, cwd, proc, spawnCount, terminal,
                   result, shell_cmd, outcome, alive, history, suspended, op, chain>>

\* the host has the value of the call
SqlReturn ==
    /\ sql.step = "returned"
    /\ sql' = [sql EXCEPT !.step = "idle", !.call = "none", !.statement = None,
                          !.before = <<>>, !.connections = 0, !.result = None]
    /\ UNCHANGED <<valves, system, fs, pc, command, working_dir, timeout,
                   warning_msg, cmd_timeout, cwd, proc, spawnCount, terminal,
                   result, shell_cmd, outcome, alive, history, suspended, op, chain>>

NextSql ==
    \/ SetAllowDangerous
    \/ SqlCall
    \/ SqlGate
    \/ SqlConnect
    \/ SqlRun
    \/ SqlReturn

SpecSql == Init /\ [][NextSql]_vars

\* a call of the SQL tool has returned
SqlReturned == sql.step = "returned"

DisabledMessages ==
    {"DROP operations disabled. Enable in settings.",
     "DELETE without WHERE disabled. Enable in settings."}

\* the statement of the call, upper-cased, contains a DROP TABLE or DROP
\* DATABASE, or a DELETE FROM and no WHERE
DangerousText ==
    \E upper \in {Upper(sql.statement.text)} :
        \/ Contains(upper, "DROP TABLE")
        \/ Contains(upper, "DROP DATABASE")
        \/ (Contains(upper, "DELETE FROM") /\ ~Contains(upper, "WHERE"))

-----------------------------------------------------------------------------
(* The agents tool (src/tools/tool_agents.py): chain_tasks.  json.loads is   *)
(* given for the arguments of the model; the model server answers each       *)
(* query with a response, an empty response or an error.                     *)

\* str.replace(old, new)
Replace(s, old, new) == Join(Split(s, old), new)

\* what json.loads makes of a task that is no list of at least two items
NotAList == <<"not a list">>

\* the arguments of the model with what json.loads does with each: it
\* returns a list (the tasks), returns another value, or raises a decode error
ChainInputs ==
    { [json |-> "[[\"coding\", \"Write f\"], [\"reasoning\", \"Review: {previous}\"]]",
       tasks |-> <<(<<"coding", "Write f">>), <<"reasoning", "Review: {previous}">>>>,
       loads |-> "list"],
      [json |-> "[[\"Coding \", \"Write f\"], [\"qwen2.5:7b\", \"Improve it\"], [\"writing\", \"Explain {previous} and {previous}\"]]",
       tasks |-> <<(<<"Coding ", "Write f">>), <<"qwen2.5:7b", "Improve it">>,
                   <<"writing", "Explain {previous} and {previous}">>>>,
       loads |-> "list"],
      [json |-> "[[\"coding\", \"Write f\"], [\"reasoning\"], [\"general\", \"Sum up\"]]",
       tasks |-> <<(<<"coding", "Write f">>), <<"reasoning">>, <<"general", "Sum up">>>>,
       loads |-> "list"],
      [json |-> "[[\"coding\", \"Write f\"], [\"general\", \"Sum up\"], \"done\"]",
       tasks |-> <<(<<"coding", "Write f">>), <<"general", "Sum up">>, NotAList>>,
       loads |-> "list"],
      [json |-> "[]", tasks |-> <<>>, loads |-> "list"],
      [json |-> "{\"coding\": \"Write f\"}", tasks |-> <<>>, loads |-> "other value"],
      [json |-> "[[", tasks |-> <<>>, loads |-> "decode error"] }

\* str(e) of the JSONDecodeError for "[["
DecodeErrorText == "Expecting value: line 1 column 3 (char 2)"

\* what _query_ollama may return: success with a response, or an error
Replies ==
    { [success |-> TRUE, text |-> "def f(): pass"],
      [success |-> TRUE, text |-> ""],
      [success |-> FALSE, text |-> "Connection error: timed out"] }

\* Tools._get_model(specialist) under the default valves
_get_model(specialist) ==
    LET name == Strip(Lower(specialist))
    IN  IF name \in {"reasoning", "analysis", "logic"} THEN "deepseek-r1:8b"
        ELSE IF name \in {"coding", "code", "programming"} THEN "qwen2.5:7b"
        ELSE IF name \in {"creative", "writing"} THEN "mistral:7b"
        ELSE IF name \in {"vision", "image"} THEN "llava:7b"
        ELSE "mistral:7b"

\* the checks of a task at the head of the loop body
Malformed(task) == task = NotAList \/ Len(task) < 2

\* the prompt of step i as the loop body rewrites it
StepPrompt(prompt, previous_response, i) ==
    IF previous_response # "" /\ Contains(prompt, "{previous}")
    THEN Replace(prompt, "{previous}", previous_response)
    ELSE IF previous_response # "" /\ i > 1
    THEN prompt \o "\n\nPrevious step output:\n" \o previous_response
    ELSE prompt

\* the host calls chain_tasks(tasks_json): json.loads and the check of the
\* array, then the loop starts
ChainCall ==
    /\ chain.state = "idle"
    /\ \E input \in ChainInputs :
          chain' =
             IF input.loads = "decode error"
             THEN [NoChain EXCEPT !.state = "returned", !.tasks_json = input.json,
                       !.result = "Error parsing tasks JSON: " \o DecodeErrorText]
             ELSE IF input.loads # "list" \/ input.tasks = <<>>
             THEN [NoChain EXCEPT !.state = "returned", !.tasks_json = input.json,
                       !.result = "Error: tasks must be a non-empty array"]
             ELSE [NoChain EXCEPT !.state = "loop", !.tasks_json = input.json,
                       !.tasks = input.tasks, !.i = 1]
    /\ UNCHANGED <<valves, system, fs, pc, command, working_dir, timeout,
                   warning_msg, cmd_timeout, cwd, proc, spawnCount, terminal,
                   result, shell_cmd, outcome, alive, history, suspended, op, sql>>

\* one pass of the loop body up to the call of _query_ollama
ChainStep ==
    /\ chain.state = "loop"
    /\ chain.i <= Len(chain.tasks)
    /\ LET task == chain.tasks[chain.i]
       IN  IF Malformed(task)
           THEN chain' = [chain EXCEPT !.state = "returned",
                              !.result = "Error: Task " \o ToString(chain.i)
                                         \o " must be [specialist, prompt]"]
           ELSE LET specialist == task[1]
                    prompt == StepPrompt(task[2], chain.previous_response, chain.i)
                    model == IF ~Contains(specialist, ":") THEN _get_model(specialist)
                             ELSE specialist
                IN  chain' = [chain EXCEPT
                        !.state = "querying",
                        !.results = @ \o <<"\n" \o Repeat("=", 50),
                                           "STEP " \o ToString(chain.i) \o "/"
                                           \o ToString(Len(chain.tasks)) \o ": "
                                           \o Upper(specialist),
                                           Repeat("=", 50)>>,
                        !.sent = Append(@, [model |-> model, prompt |-> prompt])]
    /\ UNCHANGED <<valves, system, fs, pc, command, working_dir, timeout,
                   warning_msg, cmd_timeout, cwd, proc, spawnCount, terminal,
                   result, shell_cmd, outcome, alive, history, suspended, op, sql>>

\* _query_ollama returns and the loop body ends
ChainReply ==
    /\ chain.state = "querying"
    /\ \E reply \in Replies :
          LET model == chain.sent[Len(chain.sent)].model
              error_msg == "Error: " \o reply.text
          IN  chain' = [chain EXCEPT
                  !.state = "loop",
                  !.i = @ + 1,
                  !.replies = Append(@, reply),
                  !.previous_response = IF reply.success THEN reply.text ELSE error_msg,
                  !.results = IF reply.success
                              THEN @ \o <<"Model: " \o model, "", reply.text>>
                              ELSE @ \o <<error_msg>>]
    /\ UNCHANGED <<valves, system, fs, pc, command, working_dir, timeout,
                   warning_msg, cmd_timeout, cwd, proc, spawnCount, terminal,
                   result, shell_cmd, outcome, alive, history, suspended, op, sql>>

\* the loop is over: the closing lines and the return
ChainFinish ==
    /\ chain.state = "loop"
    /\ chain.i > Len(chain.tasks)
    /\ chain' = [chain EXCEPT
          !.state = "returned",
          !.result = Join(chain.results
                          \o <<"\n" \o Repeat("=", 50),
                               "CHAIN COMPLETE: " \o ToString(Len(chain.tasks))
                               \o " steps executed",
                               Repeat("=", 50)>>, "\n")]
    /\ UNCHANGED <<valves, system, fs, pc, command, working_dir, timeout,
                   warning_msg, cmd_timeout, cwd, proc, spawnCount, terminal,
                   result, shell_cmd, outcome, alive, history, suspended, op, sql>>

\* the host has the value of the call
ChainReturn ==
    /\ chain.state = "returned"
    /\ chain' = NoChain
    /\ UNCHANGED <<valves, system, fs, pc, command, working_dir, timeout,
                   warning_msg, cmd_timeout, cwd, proc, spawnCount, terminal,
                   result, shell_cmd, outcome, alive, history, suspended, op, sql>>

NextChain ==
    \/ ChainCall
    \/ ChainStep
    \/ ChainReply
    \/ ChainFinish
    \/ ChainReturn

SpecChain == Init /\ [][NextChain]_vars

\* the output of step k: its response, or its error message
StepOutput(k) ==
    IF chain.replies[k].success THEN chain.replies[k].text
    ELSE "Error: " \o chain.replies[k].text

\* the prompt the claim gives step k: that of the task for the first step;
\* for a later step the prompt of the task with the output of step k-1 in
\* place of every "{previous}", or, without a "{previous}", followed by that
\* output (nothing needs to follow when that output is empty)
ClaimedPrompts(k) ==
    LET prompt == chain.tasks[k][2]
    IN  IF k = 1 THEN {prompt}
        ELSE IF Contains(prompt, "{previous}")
        THEN {Replace(prompt, "{previous}", StepOutput(k - 1))}
        ELSE {prompt \o "\n\nPrevious step output:\n" \o StepOutput(k - 1)}
             \cup (IF StepOutput(k - 1) = "" THEN {prompt} ELSE {})

\* the position of the first malformed task (0 if there is none)
FirstMalformed ==
    IF \E k \in 1..Len(chain.tasks) : Malformed(chain.tasks[k])
    THEN CHOOSE k \in 1..Len(chain.tasks) :
            /\ Malformed(chain.tasks[k])
            /\ \A j \in 1..(k - 1) : ~Malformed(chain.tasks[j])
    ELSE 0

\* C30 as stated: chain_tasks runs the tasks in list order with one model
\* query per task; step i > 1 receives the response of step i-1, substituted
\* for "{previous}" or appended; a failed step does not stop the chain but
\* passes its error message on; and a malformed task at position i ends the
\* call with an error only after the i-1 earlier tasks were queried.
C30_ChainFeedsPrevious ==
    /\ Len(chain.sent) =
          Len(chain.replies) + (IF chain.state = "querying" THEN 1 ELSE 0)
    /\ \A k \in 1..Len(chain.sent) :
          /\ chain.sent[k].model =
                (IF Contains(chain.tasks[k][1], ":") THEN chain.tasks[k][1]
                 ELSE _get_model(chain.tasks[k][1]))
          /\ chain.sent[k].prompt \in ClaimedPrompts(k)
    /\ (chain.state = "returned" /\ chain.tasks # <<>>) =>
          IF FirstMalformed = 0
          THEN /\ Len(chain.sent) = Len(chain.tasks)
               /\ EndsWith(chain.result, "CHAIN COMPLETE: "
                     \o ToString(Len(chain.tasks)) \o " steps executed\n"
                     \o Repeat("=", 50))
          ELSE /\ Len(chain.sent) = FirstMalformed - 1
               /\ chain.result = "Error: Task " \o ToString(FirstMalformed)
                                     \o " must be [specialist, prompt]"

====
